---- MODULE Spec2Model ----
(***************************************************************************)
(* Model of the myrient-search indexing engine: the metadata extractor     *)
(* (indexer/parser.py), the storage layer (indexer/database.py), the       *)
(* crawler (indexer/crawler.py) and the run orchestration (indexer/sync.py,*)
(* backend/main.py).                                                       *)
(*                                                                         *)
(* A Python str is a sequence of one-character strings, so that split,     *)
(* join, strip and the comparisons of the source are computed, not assumed.*)
(* Python None is the value None.                                          *)
(***************************************************************************)
EXTENDS Integers, Sequences, FiniteSets, Bags, TLC

\* None is a value no str equals: no str holds the element "None"
None == <<"None">>

SLASH == "/"
DOT == "."

\* Characters in code-point order (' ' < '-' < '.' < '/' < digits < ':' < letters).
Alphabet == <<" ", "-", ".", "/", "0", "1", "2", "3", "4", "5", ":", "a", "b", "f", "g">>

CharOrd(c) == CHOOSE i \in 1..Len(Alphabet) : Alphabet[i] = c

(***************************************************************************)
(* str primitives                                                          *)
(***************************************************************************)
endswith(s, c) == Len(s) > 0 /\ s[Len(s)] = c

startswith(s, c) == Len(s) > 0 /\ s[1] = c

\* sub in s, for a one- or two-character sub
contains(s, sub) ==
    \E i \in 1..Len(s) :
        /\ i + Len(sub) - 1 <= Len(s)
        /\ \A k \in 1..Len(sub) : s[i + k - 1] = sub[k]

RECURSIVE lstrip(_)
lstrip(s) == IF startswith(s, SLASH) THEN lstrip(Tail(s)) ELSE s

RECURSIVE rstrip(_)
rstrip(s) == IF endswith(s, SLASH) THEN rstrip(SubSeq(s, 1, Len(s) - 1)) ELSE s

strip(s) == lstrip(rstrip(s))

\* s.split("/"): always at least one part; "a/b/" gives <<"a","b","">>
RECURSIVE split(_)
split(s) ==
    IF ~contains(s, <<SLASH>>) THEN <<s>>
    ELSE LET i == CHOOSE j \in 1..Len(s) :
                      s[j] = SLASH /\ \A k \in 1..(j - 1) : s[k] # SLASH
         IN <<SubSeq(s, 1, i - 1)>> \o split(SubSeq(s, i + 1, Len(s)))

\* "/".join(parts)
RECURSIVE join(_)
join(parts) ==
    IF Len(parts) = 0 THEN <<>>
    ELSE IF Len(parts) = 1 THEN parts[1]
    ELSE parts[1] \o <<SLASH>> \o join(Tail(parts))

\* mutant of cleaned: a '.' segment is blanked instead of dropped
RECURSIVE cleaned_blanking_dots(_)
cleaned_blanking_dots(parts) ==
    IF Len(parts) = 0 THEN <<>>
    ELSE IF parts[1] = <<DOT>> THEN <<<<>>>> \o cleaned_blanking_dots(Tail(parts))
    ELSE IF parts[1] # <<>> THEN <<parts[1]>> \o cleaned_blanking_dots(Tail(parts))
    ELSE cleaned_blanking_dots(Tail(parts))

\* the list comprehension [p for p in parts if p and p != "."]
RECURSIVE cleaned(_)
cleaned(parts) ==
    IF Len(parts) = 0 THEN <<>>
    ELSE IF parts[1] # <<>> /\ parts[1] # <<DOT>>
         THEN <<parts[1]>> \o cleaned(Tail(parts))
         ELSE cleaned(Tail(parts))

\* s.rsplit("/", 2)[0]: what precedes the second slash from the right, or the
\* only slash, or the whole string when it has none
rsplit2_head(s) ==
    LET parts == split(s)
        n == Len(parts)
    IN IF n <= 3 THEN parts[1] ELSE join(SubSeq(parts, 1, n - 2))

(***************************************************************************)
(* indexer/parser.py                                                       *)
(***************************************************************************)
\* mutant of _normalize_path: only the empty segments are dropped
normalize_keeping_dots(path) ==
    LET kept == SelectSeq(split(path), LAMBDA seg : seg # <<>>)
        result == join(kept)
    IN IF endswith(path, SLASH) /\ result # <<>> THEN result \o <<SLASH>> ELSE result

\* urllib.parse.unquote on the escapes of the model: "%2F" and "%2E" are one
\* element each and decode to '/' and '.'
unquote(s) ==
    [i \in 1..Len(s) |-> IF s[i] = "%2F" THEN SLASH ELSE IF s[i] = "%2E" THEN DOT ELSE s[i]]

\* one <tr> of _parse_table_rows: the rows (none or one) it appends for a link
\* with this text and href and these size and date cells (their stripped
\* texts, empty for a missing cell); the "parent dir" texts are not among the
\* texts of the model
parse_table_row(text, href, size_text, date_text) ==
    LET decoded_name == unquote(rstrip(text))
    IN IF \/ text \in {<<DOT, DOT, SLASH>>, <<DOT, DOT>>, <<DOT>>, <<DOT, SLASH>>}
          \/ href \in {<<DOT, DOT, SLASH>>, <<SLASH>>, <<DOT, SLASH>>, <<DOT>>}
          \/ decoded_name \in {<<DOT>>, <<DOT, DOT>>}
       THEN {}
       ELSE {[name |-> decoded_name,
              href |-> href,
              size |-> IF size_text \in {<<"-">>, <<>>} THEN None ELSE size_text,
              date |-> IF date_text # <<>> THEN date_text ELSE None,
              is_directory |-> endswith(href, SLASH) \/ size_text \in {<<"-">>, <<>>}]}

\* _normalize_path: drop empty and '.' segments, keep a trailing slash of a
\* non-empty result
_normalize_path(path) ==
    LET result == join(cleaned(split(path)))
    IN IF endswith(path, SLASH) /\ result # <<>> THEN result \o <<SLASH>> ELSE result

\* extract_collection: first segment of the path
extract_collection(path) == split(strip(path))[1]

\* the parent_path expression of build_entry, on the normalized full path
parent_path_of(full_path) ==
    IF contains(rstrip(full_path), <<SLASH>>)
    THEN _normalize_path(rsplit2_head(full_path) \o <<SLASH>>)
    ELSE <<>>

\* build_entry: the record stored for one listing row. The fields derived from
\* the name alone (region, file_type), the platform table lookup and the date
\* conversion are not carried.
build_entry(href, name, is_directory, size, date, parent_url_path) ==
    LET suffix == IF is_directory THEN <<SLASH>> ELSE <<>>
        joined == IF endswith(parent_url_path, SLASH)
                  THEN parent_url_path \o name \o suffix
                  ELSE parent_url_path \o <<SLASH>> \o name \o suffix
        full_path == _normalize_path(lstrip(joined))
    IN [path |-> full_path,
        name |-> name,
        is_directory |-> is_directory,
        file_size |-> size,
        collection |-> extract_collection(full_path),
        parent_path |-> parent_path_of(full_path)]

(***************************************************************************)
(* Database.compute_content_hash                                           *)
(***************************************************************************)
OrEmpty(v) == IF v = None THEN <<>> ELSE v

\* Python's < on str: by code point, a proper prefix first
RECURSIVE str_lt(_, _)
str_lt(a, b) ==
    IF Len(b) = 0 THEN FALSE
    ELSE IF Len(a) = 0 THEN TRUE
    ELSE IF a[1] # b[1] THEN CharOrd(a[1]) < CharOrd(b[1])
    ELSE str_lt(Tail(a), Tail(b))

\* Python's < on the (name, size, date) tuples
tuple_lt(t, u) ==
    \/ str_lt(t[1], u[1])
    \/ t[1] = u[1] /\ str_lt(t[2], u[2])
    \/ t[1] = u[1] /\ t[2] = u[2] /\ str_lt(t[3], u[3])

RECURSIVE insert_sorted(_, _)
insert_sorted(t, sorted_seq) ==
    IF Len(sorted_seq) = 0 THEN <<t>>
    ELSE IF tuple_lt(t, sorted_seq[1]) THEN <<t>> \o sorted_seq
    ELSE <<sorted_seq[1]>> \o insert_sorted(t, Tail(sorted_seq))

\* mutant of sorted: the tuples stay in listing order
unsorted(tuples) == tuples

RECURSIVE sorted(_)
sorted(tuples) ==
    IF Len(tuples) = 0 THEN <<>>
    ELSE insert_sorted(tuples[Len(tuples)], sorted(SubSeq(tuples, 1, Len(tuples) - 1)))

\* compute_content_hash: SHA-256 of repr(sorted tuples); the digest is taken
\* collision-free, so the sorted tuple list stands for it
compute_content_hash(raw_entries) ==
    sorted([i \in 1..Len(raw_entries) |->
              <<raw_entries[i].name, OrEmpty(raw_entries[i].size),
                OrEmpty(raw_entries[i].date)>>])

(***************************************************************************)
(* indexer/database.py: the tables are sets of rows. The ids of entries    *)
(* are kept beside the rows (row_ids); created_at and updated_at are not   *)
(* carried.                                                                *)
(***************************************************************************)
\* mutant of insert_or_replace: INSERT OR IGNORE, a stored path keeps its row
insert_or_ignore(tbl, r) ==
    IF \E e \in tbl : e.path = r.path THEN tbl ELSE tbl \cup {r}

\* one INSERT OR REPLACE INTO entries: the UNIQUE(path) conflict deletes the
\* old row
insert_or_replace(tbl, r) == {e \in tbl : e.path # r.path} \cup {r}

\* insert_entries_batch: executemany over the records, in order
RECURSIVE insert_entries_batch(_, _)
insert_entries_batch(tbl, records) ==
    IF Len(records) = 0 THEN tbl
    ELSE insert_entries_batch(insert_or_replace(tbl, records[1]), Tail(records))

\* the columns of sync_meta that SCHEMA_SQL creates and the rows of the model
\* carry (etag, last_modified and last_crawled are not carried)
base_columns == {"path", "entry_count"}

\* the columns of sync_meta once migrate_add_content_hash has run
migrated_columns == base_columns \cup {"content_hash"}

\* upsert_sync_meta: INSERT OR REPLACE on the primary key path. The statement
\* names the column content_hash: on a table without it (a file that only
\* initialize() has touched) it raises sqlite3.OperationalError and connect()
\* rolls back
upsert_sync_meta(meta, columns, path, entry_count, content_hash) ==
    IF "content_hash" \notin columns
    THEN [raised |-> TRUE, meta |-> meta]
    ELSE [raised |-> FALSE,
          meta |-> {m \in meta : m.path # path}
                      \cup {[path |-> path, entry_count |-> entry_count,
                              content_hash |-> content_hash]}]

\* get_sync_meta: the row for path as a set, empty for None
get_sync_meta(meta, path) == {m \in meta : m.path = path}

\* remove_missing_entries, its SELECT and the list it builds from it
\* (to_delete): the rows of parent_path whose name is not in current_names.
\* The SELECT runs outside a transaction
to_delete(tbl, parent_path, current_names) ==
    {e \in tbl : e.parent_path = parent_path /\ e.name \notin current_names}

\* remove_missing_entries, its DELETE ... WHERE id IN (to_delete), in a
\* transaction of its own: the selected rows that are still stored go. A row
\* stands for its id here; where another connection can replace a row
\* between the two statements, the replaced row is taken out of the selection
delete_selected(tbl, selected) == tbl \ selected

\* the database file as the storage layer sees it: the rows of entries, the
\* id of each row, the documents of the full-text index and the AUTOINCREMENT
\* sequence
DbFile(tbl, ids, idx, sq) == [entries |-> tbl, row_ids |-> ids, fts |-> idx, seq |-> sq]

\* the document the triggers hand to entries_fts for a row
fts_doc(id, r) == [rowid |-> id, name |-> r.name, path |-> r.path, collection |-> r.collection]

\* path TEXT NOT NULL, name TEXT NOT NULL: REPLACE does not resolve a NOT NULL
\* conflict of a column without default, the statement fails
violates_not_null(r) == r.path = None \/ r.name = None

\* one INSERT OR REPLACE INTO entries with its triggers: the row stored for
\* the path is deleted by the conflict resolution, which fires no delete
\* trigger (recursive_triggers is off); the new row takes the next id;
\* entries_ai adds its document to the index
sql_insert_or_replace(db, r) ==
    [entries |-> insert_or_replace(db.entries, r),
     row_ids |-> {x \in db.row_ids : x.path # r.path}
                    \cup {[path |-> r.path, id |-> db.seq + 1]},
     fts |-> db.fts \cup {fts_doc(db.seq + 1, r)},
     seq |-> db.seq + 1]

\* conn.executemany(sql, entries): the statements in order, up to the first
\* that fails
RECURSIVE executemany(_, _)
executemany(db, records) ==
    IF Len(records) = 0 THEN [raised |-> FALSE, db |-> db]
    ELSE IF violates_not_null(records[1]) THEN [raised |-> TRUE, db |-> db]
    ELSE executemany(sql_insert_or_replace(db, records[1]), Tail(records))

\* mutant of connect: the work of a block that raised is committed too
connect_committing(before, res) == res.db

\* connect(): commit when the block ends, rollback when it raises
connect(before, res) == IF res.raised THEN before ELSE res.db

\* DELETE FROM entries for the rows of the paths in gone; entries_ad removes
\* the document of each deleted row id from the index
sql_delete(db, gone) ==
    LET ids == {x.id : x \in {y \in db.row_ids : y.path \in gone}}
    IN [entries |-> {e \in db.entries : e.path \notin gone},
        row_ids |-> {x \in db.row_ids : x.path \notin gone},
        fts |-> {d \in db.fts : d.rowid \notin ids},
        seq |-> db.seq]

\* path LIKE './%'
like_dotslash_lead(path) == Len(path) >= 2 /\ path[1] = DOT /\ path[2] = SLASH

\* mutant of like_dotslash_mid: the pattern '/./%', anchored at the start
like_dotslash_at_start(path) ==
    Len(path) >= 3 /\ SubSeq(path, 1, 3) = <<SLASH, DOT, SLASH>>

\* path LIKE '%/./%'
like_dotslash_mid(path) == contains(path, <<SLASH, DOT, SLASH>>)

\* INSERT INTO entries_fts(entries_fts) VALUES('rebuild'): the index is
\* rebuilt from the rows of the content table
fts_rebuild(db) ==
    [db EXCEPT !.fts = {fts_doc(x.id, CHOOSE e \in db.entries : e.path = x.path) :
                           x \in db.row_ids}]

\* mutant of cleanup_dotslash_duplicates: the rows named '.' are counted and
\* kept
cleanup_keeping_dot_names(db) ==
    LET gone == {e.path : e \in {f \in db.entries :
                     like_dotslash_mid(f.path) \/ like_dotslash_lead(f.path)}}
    IN fts_rebuild(sql_delete(db, gone))

\* cleanup_dotslash_duplicates on entries and the index
cleanup_dotslash_duplicates(db) ==
    LET gone == {e.path : e \in {f \in db.entries :
                     like_dotslash_mid(f.path) \/ like_dotslash_lead(f.path)
                        \/ f.name = <<DOT>>}}
    IN fts_rebuild(sql_delete(db, gone))

\* cleanup_dotslash_duplicates on sync_meta
cleanup_sync_meta(meta) ==
    {m \in meta : ~(like_dotslash_mid(m.path) \/ like_dotslash_lead(m.path))}

\* the SELECT COUNT(*) statements of cleanup_dotslash_duplicates in the order
\* it runs them, under the keys their results have in the dict it returns
CleanupCounts ==
    <<"total_before", "dotslash_mid_removed", "dotslash_lead_removed",
      "dot_entries_removed", "sync_meta_removed", "total_after">>

\* the rows the k-th count counts, and the DELETE after it deletes
cleanup_selected(k, db, meta) ==
    IF k = 2 THEN {e \in db.entries : like_dotslash_mid(e.path)}
    ELSE IF k = 3 THEN {e \in db.entries : like_dotslash_lead(e.path)}
    ELSE IF k = 4 THEN {e \in db.entries : e.name = <<DOT>>}
    ELSE IF k = 5 THEN {m \in meta : like_dotslash_mid(m.path) \/ like_dotslash_lead(m.path)}
    ELSE db.entries

\* the DELETE that follows the k-th count when it is above zero; none follows
\* total_before and total_after
cleanup_delete(k, db, meta) ==
    [db |-> IF k \in 2..4
            THEN sql_delete(db, {e.path : e \in cleanup_selected(k, db, meta)})
            ELSE db,
     meta |-> IF k = 5 THEN meta \ cleanup_selected(k, db, meta) ELSE meta]

\* cleanup_dotslash_duplicates from its k-th count (already read when counted)
\* to its end, as one transaction: the first DELETE, or else the rebuild of
\* the index, begins the transaction, and connect() commits it
RECURSIVE cleanup_rest(_, _, _, _, _)
cleanup_rest(k, db, meta, counts, counted) ==
    IF k > Len(CleanupCounts)
    THEN [db |-> fts_rebuild(db), meta |-> meta, counts |-> counts]
    ELSE LET c == IF counted THEN counts[CleanupCounts[k]]
                  ELSE Cardinality(cleanup_selected(k, db, meta))
             d == IF c > 0 THEN cleanup_delete(k, db, meta) ELSE [db |-> db, meta |-> meta]
         IN cleanup_rest(k + 1, d.db, d.meta, [counts EXCEPT ![CleanupCounts[k]] = c], FALSE)

\* the dict cleanup_dotslash_duplicates returns
cleanup_returned(counts) ==
    [key \in DOMAIN counts \cup {"total_removed"} |->
        IF key = "total_removed" THEN counts.total_before - counts.total_after
        ELSE counts[key]]

(***************************************************************************)
(* indexer/crawler.py: the per-directory loop of _crawl_directory          *)
(***************************************************************************)
\* BATCH_SIZE (1000 in the source), scaled so that a visit can fill a batch
BATCH_SIZE == 2

\* CRAWL_CONCURRENCY (10 by default), scaled
CRAWL_CONCURRENCY == 2

\* name in (".", "./")
is_dot_name(name) == name = <<DOT>> \/ name = <<DOT, SLASH>>

\* current_names: every name of the listing but the current-directory ones
current_names(raw_entries) ==
    {raw_entries[i].name : i \in {j \in 1..Len(raw_entries) : ~is_dot_name(raw_entries[j].name)}}

\* entries_to_insert: one build_entry per kept row, in listing order
RECURSIVE entries_to_insert(_, _)
entries_to_insert(raw_entries, rel_path) ==
    IF Len(raw_entries) = 0 THEN <<>>
    ELSE LET raw == raw_entries[1]
             rest == entries_to_insert(Tail(raw_entries), rel_path)
         IN IF is_dot_name(raw.name) THEN rest
            ELSE <<build_entry(raw.href, raw.name, raw.is_directory,
                               raw.size, raw.date, rel_path)>> \o rest

\* the recursion path of a directory row
sub_path_of(rel_path, name) ==
    _normalize_path(IF rel_path # <<>> THEN rel_path \o name \o <<SLASH>>
                    ELSE name \o <<SLASH>>)

\* "/." in sub_path or sub_path.startswith(".")
suspicious(sub_path) == contains(sub_path, <<SLASH, DOT>>) \/ startswith(sub_path, DOT)

\* subdirs: the paths recursed into, in listing order
RECURSIVE subdirs(_, _)
subdirs(raw_entries, rel_path) ==
    IF Len(raw_entries) = 0 THEN <<>>
    ELSE LET raw == raw_entries[1]
             rest == subdirs(Tail(raw_entries), rel_path)
         IN IF is_dot_name(raw.name) \/ ~raw.is_directory THEN rest
            ELSE IF suspicious(sub_path_of(rel_path, raw.name)) THEN rest
            ELSE <<sub_path_of(rel_path, raw.name)>> \o rest

\* the rows counted into stats["files_found"]
files_in(raw_entries) ==
    Cardinality({i \in 1..Len(raw_entries) :
                    ~is_dot_name(raw_entries[i].name) /\ ~raw_entries[i].is_directory})

(***************************************************************************)
(* The remote tree: every directory page as the rows parse_directory_listing*)
(* returns for it. Each directory has a small menu of possible listings.   *)
(***************************************************************************)
DirRow(name) ==
    [name |-> name, href |-> name \o <<SLASH>>, size |-> None, date |-> None,
     is_directory |-> TRUE]

FileRow(name, size) ==
    [name |-> name, href |-> name, size |-> size, date |-> None, is_directory |-> FALSE]

pRoot == <<>>
pA == <<"a", "/">>
pAB == <<"a", "/", "b", "/">>

RemoteDirs == {pRoot, pA, pAB}

ListingMenu(d) ==
    IF d = pRoot THEN {<<DirRow(<<"a">>)>>,
                       <<DirRow(<<"a">>), FileRow(<<"f">>, <<"1">>)>>}
    ELSE IF d = pA THEN {<<DirRow(<<"b">>)>>,
                         <<DirRow(<<"b">>), FileRow(<<"g">>, <<"1">>)>>}
    ELSE {<<FileRow(<<"f">>, <<"1">>)>>,
          <<FileRow(<<"g">>, <<"2">>), FileRow(<<"f">>, <<"1">>)>>,
          <<>>}

(***************************************************************************)
(* State                                                                   *)
(***************************************************************************)
VARIABLES
    remote,        \* directory path -> the rows its page lists now
    entries,       \* table entries
    sync_meta,     \* table sync_meta
    status,        \* crawl_state.status
    phase,         \* where the one run of the crawl specification stands
    incremental,   \* MyrientCrawler.incremental
    buffer,        \* MyrientCrawler._entry_buffer
    stats,         \* MyrientCrawler.stats
    tasks,         \* the _crawl_directory coroutines of the run
    permits,       \* free permits of MyrientCrawler.semaphore
    running,       \* the coroutine the event loop is executing, 0 when none
    pre_entries,   \* history: entries when the run started
    pre_meta,      \* history: sync_meta when the run started
    visits,        \* history: the directories parsed in this run
    meta_reads,    \* history: the paths get_sync_meta was asked for in this run
    crashed,       \* history: the visits of the run the process died in, <<>> when none
    passed,        \* history: the bag of records insert_entries_batch took in this run
    changes,       \* history: every change <<from, to>> crawl_state.status has made
    be_in,         \* build_entry specification: the arguments
    be_out,        \* build_entry specification: the record returned
    be_pc,         \* build_entry specification: "input" or "built"
    proc,          \* orchestration specification: the server process, "down" or "up"
    thr,           \* orchestration specification: the run_sync_blocking threads
    db_last,       \* storage specification, history: path -> last record upserted
    db_batch,      \* storage specification: the records of the latest upsert
    row_ids,       \* storage specification: the id of the row of each stored path
    fts_index,     \* storage specification: the documents of entries_fts
    seq,           \* storage specification: the AUTOINCREMENT sequence of entries
    db_pre,        \* storage specification, history: the latest call and what it found
    db_raised,     \* storage specification: the latest call raised
    db_call,       \* storage specification: the calls that are between two of their statements
    hs_a,          \* fingerprint specification: a listing
    hs_b,          \* fingerprint specification: another listing
    hs_out,        \* fingerprint specification: the two hashes
    hs_pc,         \* fingerprint specification: "input" or "hashed"
    np_in,         \* path specification: the argument of _normalize_path
    np_out,        \* path specification: the result, and the result for the result
    np_pc,         \* path specification: "input" or "done"
    sr_in,         \* search specification: the request
    sr_out,        \* search specification: the response
    sr_pc,         \* search specification: "request" or "answered"
    cl_pre,        \* cleanup specification, history: the tables before the latest call
    cl_out,        \* cleanup specification: the counts the latest call returned
    cl_pc,         \* cleanup specification: the calls made, capped at 2
    mg_db,         \* migration specification: the schema and the dates of the file
    mg_out,        \* migration specification: the latest call and what it returned
    mg_pc,         \* migration specification: the calls made
    dt_in,         \* date specification: the argument of normalize_myrient_date
    dt_out,        \* date specification: the result, and the result for the result
    dt_pc,         \* date specification: "input" or "done"
    meta_columns   \* the columns table sync_meta has in the database file

dbVars == <<entries, sync_meta, status>>
crawlerVars == <<phase, incremental, buffer, stats, tasks, permits, running>>
historyVars == <<pre_entries, pre_meta, visits, meta_reads, crashed, passed>>
buildVars == <<be_in, be_out, be_pc>>
syncVars == <<proc, thr>>
storeVars == <<db_last, db_batch, row_ids, fts_index, seq, db_pre, db_raised, db_call>>
hashVars == <<hs_a, hs_b, hs_out, hs_pc>>
normVars == <<np_in, np_out, np_pc>>
searchVars == <<sr_in, sr_out, sr_pc>>
cleanVars == <<cl_pre, cl_out, cl_pc>>
migVars == <<mg_db, mg_out, mg_pc>>
dateVars == <<dt_in, dt_out, dt_pc>>
schemaVars == <<meta_columns>>
restVars == <<cleanVars, migVars, dateVars, schemaVars>>
auxVars == <<hashVars, normVars, searchVars, restVars>>
vars == <<remote, dbVars, crawlerVars, historyVars, changes, buildVars, syncVars, storeVars,
          auxVars>>

ZeroStats == [dirs_crawled |-> 0, dirs_skipped |-> 0, files_found |-> 0, errors |-> 0]

NewTask(path, parent) ==
    [path |-> path, parent |-> parent, pc |-> "queued", skip |-> FALSE, raw |-> <<>>,
     selected |-> {}]

Remotes == {r \in [RemoteDirs -> UNION {ListingMenu(d) : d \in RemoteDirs}] :
                \A d \in RemoteDirs : r[d] \in ListingMenu(d)}

\* Database.initialize on an empty file (the import of backend/main.py) and
\* no crawler yet
InitDb ==
    /\ entries = {}
    /\ sync_meta = {}
    /\ status = "idle"

InitCrawler ==
    /\ phase = "idle"
    /\ incremental = TRUE
    /\ buffer = <<>>
    /\ stats = ZeroStats
    /\ tasks = <<>>
    /\ permits = CRAWL_CONCURRENCY
    /\ running = 0
    /\ pre_entries = {}
    /\ pre_meta = {}
    /\ visits = {}
    /\ meta_reads = {}
    /\ crashed = <<>>
    /\ passed = EmptyBag

\* the variables of the other specifications, at rest
EmptyEntry ==
    [path |-> <<>>, name |-> <<>>, is_directory |-> FALSE, file_size |-> None,
     collection |-> <<>>, parent_path |-> <<>>]

NoInput == [parent_url_path |-> <<>>, name |-> <<>>, is_directory |-> FALSE]

InitBuild ==
    /\ be_in = NoInput
    /\ be_out = EmptyEntry
    /\ be_pc = "idle"

InitSync ==
    /\ proc = "up"
    /\ thr = <<>>

NoCall == [entries |-> {}, fts |-> {}, batch |-> <<>>, returned |-> None]

\* crawler threads that may be inside remove_missing_entries at once
MaxRemoving == 2

\* no call is between two of its statements: remove holds, per crawler thread,
\* the ids its remove_missing_entries call has selected; cleanup holds the
\* cleanup_dotslash_duplicates call of the server's event loop
NoDbCall == [remove |-> [t \in 1..MaxRemoving |-> {}], cleanup |-> <<>>]

InitStore ==
    /\ db_last = <<>>
    /\ db_batch = <<>>
    /\ row_ids = {}
    /\ fts_index = {}
    /\ seq = 0
    /\ db_pre = NoCall
    /\ db_raised = FALSE
    /\ db_call = NoDbCall

InitHash ==
    /\ hs_a = <<>>
    /\ hs_b = <<>>
    /\ hs_out = <<>>
    /\ hs_pc = "idle"

InitNorm ==
    /\ np_in = <<>>
    /\ np_out = <<>>
    /\ np_pc = "idle"

InitSearch ==
    /\ sr_in = <<>>
    /\ sr_out = <<>>
    /\ sr_pc = "idle"

InitClean ==
    /\ cl_pre = <<>>
    /\ cl_out = <<>>
    /\ cl_pc = 0

InitMig ==
    /\ mg_db = <<>>
    /\ mg_out = <<>>
    /\ mg_pc = 0

InitDate ==
    /\ dt_in = <<>>
    /\ dt_out = <<>>
    /\ dt_pc = "idle"

\* the schema after startup(), which runs migrate_add_content_hash before any
\* run is started
InitSchema == meta_columns = migrated_columns

InitRest == InitClean /\ InitMig /\ InitDate /\ InitSchema

InitAux == InitHash /\ InitNorm /\ InitSearch /\ InitRest

Init ==
    /\ remote \in Remotes
    /\ InitDb
    /\ InitCrawler
    /\ changes = {}
    /\ InitBuild
    /\ InitSync
    /\ InitStore
    /\ InitAux

(***************************************************************************)
(* The run: run_sync, MyrientCrawler.crawl and _crawl_directory            *)
(***************************************************************************)
\* the actions of the crawl leave the variables of the other specifications alone
OtherFrame == UNCHANGED <<buildVars, syncVars, storeVars, auxVars>>

\* the same, for an action that does not write crawl_state
CrawlFrame == OtherFrame /\ UNCHANGED changes

\* update_crawl_state(status=new, ...)
SetStatus(new) ==
    /\ status' = new
    /\ changes' = IF new # status THEN changes \cup {<<status, new>>} ELSE changes

\* the except branch of run_sync: update_crawl_state(status="error", ...),
\* then raise. The UPDATE is a storage call like the one that failed: when it
\* raises too (a locked database), the status stays as it is
SyncFailed ==
    \E written \in BOOLEAN : SetStatus(IF written THEN "error" ELSE status)

\* the remote archive changes one directory page between two runs
RemoteChange ==
    /\ phase \in {"idle", "ended"}
    /\ \E d \in RemoteDirs : \E l \in ListingMenu(d) :
          /\ l # remote[d]
          /\ remote' = [remote EXCEPT ![d] = l]
    /\ UNCHANGED <<dbVars, crawlerVars, historyVars>>
    /\ CrawlFrame

\* run_sync up to the construction of the crawler: returns at once when a run
\* is recorded as crawling
RunSync ==
    /\ phase \in {"idle", "ended"}
    /\ status # "crawling"
    /\ \E full \in BOOLEAN : incremental' = ~full
    /\ phase' = "created"
    /\ buffer' = <<>>
    /\ stats' = ZeroStats
    /\ tasks' = <<>>
    /\ permits' = CRAWL_CONCURRENCY
    /\ running' = 0
    /\ pre_entries' = entries
    /\ pre_meta' = sync_meta
    /\ visits' = {}
    /\ meta_reads' = {}
    /\ passed' = EmptyBag
    /\ UNCHANGED <<remote, dbVars, crashed>>
    /\ CrawlFrame

\* crawl(): the status write, then the root coroutine is awaited
CrawlStart ==
    /\ phase = "created"
    /\ SetStatus("crawling")
    /\ tasks' = <<NewTask(pRoot, 0)>>
    /\ phase' = "traverse"
    /\ UNCHANGED <<remote, entries, sync_meta, incremental, buffer, stats, permits,
                   running, historyVars>>
    /\ OtherFrame

TaskIds == 1..Len(tasks)

\* mutant of locked: the semaphore never makes a coroutine wait
locked_never(free) == FALSE

\* asyncio.Semaphore.locked(): no permit is free
locked(free) == free = 0

\* mutant of release: the permit of a finished fetch is not given back
release_kept(free) == free

\* asyncio.Semaphore.release() at the end of 'async with self.semaphore'
release(free) == free + 1

\* async with self.semaphore: a permit is taken, the request goes out
Acquire(t) ==
    /\ phase = "traverse" /\ running = 0
    /\ tasks[t].pc = "queued"
    /\ ~locked(permits)
    /\ permits' = permits - 1
    /\ tasks' = [tasks EXCEPT ![t].pc = "fetching"]
    /\ UNCHANGED <<remote, dbVars, phase, incremental, buffer, stats, running, historyVars>>
    /\ CrawlFrame

\* status 200: the page is read, the permit released, the listing parsed
FetchOk(t) ==
    /\ phase = "traverse" /\ running = 0
    /\ tasks[t].pc = "fetching"
    /\ tasks[t].path \in DOMAIN remote
    /\ permits' = release(permits)
    /\ tasks' = [tasks EXCEPT ![t].pc = "parsed", ![t].raw = remote[tasks[t].path]]
    /\ running' = t
    /\ UNCHANGED <<remote, dbVars, phase, incremental, buffer, stats, historyVars>>
    /\ CrawlFrame

\* mutant of count_error: a failed fetch leaves the counter as it is
count_error_never(st) == st

\* self.stats["errors"] += 1
count_error(st) == [st EXCEPT !.errors = @ + 1]

\* a status other than 200, a timeout or a transport error: counted, the
\* visit returns
FetchFail(t) ==
    /\ phase = "traverse" /\ running = 0
    /\ tasks[t].pc = "fetching"
    /\ permits' = release(permits)
    /\ stats' = count_error(stats)
    /\ tasks' = [tasks EXCEPT ![t].pc = "done"]
    /\ UNCHANGED <<remote, dbVars, phase, incremental, buffer, running, historyVars>>
    /\ CrawlFrame

\* mutant of skip_db_writes: the stored fingerprint decides in a full run too
skip_ignoring_mode(incr, meta, rel_path, raw_entries) ==
    \E m \in get_sync_meta(meta, rel_path) :
        m.content_hash = compute_content_hash(raw_entries)

\* the skip decision: incremental and the stored content_hash equals the fresh one
skip_db_writes(incr, meta, rel_path, raw_entries) ==
    /\ incr
    /\ \E m \in get_sync_meta(meta, rel_path) :
          m.content_hash = compute_content_hash(raw_entries)

\* mutant of after_loop: the writes follow even when the fingerprint matched
after_loop_always_writes(skip) == "buffer"

\* if not skip_db_writes: the writes follow, else the visit goes on to recurse
after_loop(skip) == IF skip THEN "recurse" ELSE "buffer"

\* from the parsed listing to the end of the row loop
Decide(t) ==
    /\ running = t
    /\ tasks[t].pc = "parsed"
    /\ LET skip == skip_db_writes(incremental, sync_meta, tasks[t].path, tasks[t].raw)
       IN /\ tasks' = [tasks EXCEPT ![t].skip = skip,
                                    ![t].pc = after_loop(skip)]
          /\ stats' = [stats EXCEPT
                         !.dirs_crawled = @ + 1,
                         !.dirs_skipped = IF skip THEN @ + 1 ELSE @,
                         !.files_found = @ + files_in(tasks[t].raw)]
          /\ visits' = visits \cup {[path |-> tasks[t].path, skip |-> skip,
                                     raw |-> tasks[t].raw]}
    /\ meta_reads' = IF incremental THEN meta_reads \cup {tasks[t].path} ELSE meta_reads
    /\ UNCHANGED <<remote, dbVars, phase, incremental, buffer, permits, running, pre_entries,
                   pre_meta, crashed, passed>>
    /\ CrawlFrame

\* mutant of flush_rest: the buffer is emptied after a batch, its tail is lost
flush_rest_dropping(buf) == IF Len(buf) >= BATCH_SIZE THEN <<>> ELSE buf

\* the records of a list as a bag
BagOfSeq(s) ==
    [r \in {s[i] : i \in DOMAIN s} |-> Cardinality({i \in DOMAIN s : s[i] = r})]

\* mutant of flush_batch: the whole buffer is written, its tail stays buffered
flush_batch_whole(buf) == IF Len(buf) >= BATCH_SIZE THEN buf ELSE <<>>

\* the batch cut off the extended buffer, <<>> when it is below BATCH_SIZE
flush_batch(buf) == IF Len(buf) >= BATCH_SIZE THEN SubSeq(buf, 1, BATCH_SIZE) ELSE <<>>

\* what stays buffered
flush_rest(buf) ==
    IF Len(buf) >= BATCH_SIZE THEN SubSeq(buf, BATCH_SIZE + 1, Len(buf)) ELSE buf

\* under _buffer_lock: extend the buffer, write one batch when it is full
BufferEntries(t) ==
    /\ running = t
    /\ tasks[t].pc = "buffer"
    /\ LET extended == buffer \o entries_to_insert(tasks[t].raw, tasks[t].path)
       IN /\ buffer' = flush_rest(extended)
          /\ entries' = insert_entries_batch(entries, flush_batch(extended))
          /\ passed' = passed (+) BagOfSeq(flush_batch(extended))
    /\ tasks' = [tasks EXCEPT ![t].pc = "meta"]
    /\ UNCHANGED <<remote, sync_meta, status, phase, incremental, stats, permits,
                   running, pre_entries, pre_meta, visits, meta_reads, crashed>>
    /\ CrawlFrame

\* the exception of a visit leaves crawl(): only the root coroutine is
\* awaited directly, every other one through gather(return_exceptions=True)
escapes_run(task) == task.parent = 0

\* mutant of after_meta: stale rows are removed in a full run too
after_meta_always_removes(incr) == "remove"

\* if self.incremental: remove_missing_entries follows, else the recursion
after_meta(incr) == IF incr THEN "remove" ELSE "recurse"

\* upsert_sync_meta(rel_path, etag, last_modified, len(raw_entries),
\* content_hash); when it raises the coroutine ends with the exception, which
\* gather hands to the parent or, from the root, run_sync records as 'error'
UpsertMeta(t) ==
    /\ running = t
    /\ tasks[t].pc = "meta"
    /\ LET res == upsert_sync_meta(sync_meta, meta_columns, tasks[t].path,
                                   Len(tasks[t].raw), compute_content_hash(tasks[t].raw))
           out == res.raised /\ escapes_run(tasks[t])
       IN /\ sync_meta' = res.meta
          /\ tasks' = [tasks EXCEPT ![t].pc = IF res.raised THEN "raised"
                                              ELSE after_meta(incremental)]
          /\ running' = IF res.raised THEN 0 ELSE running
          /\ phase' = IF out THEN "failed" ELSE phase
          /\ IF out THEN SyncFailed ELSE SetStatus(status)
    /\ UNCHANGED <<remote, entries, incremental, buffer, stats, permits, historyVars>>
    /\ OtherFrame

\* if self.incremental: remove_missing_entries(rel_path, current_names), up
\* to its list to_delete; with nothing to delete the call commits and returns
RemoveSelect(t) ==
    /\ running = t
    /\ tasks[t].pc = "remove"
    /\ LET rows == to_delete(entries, tasks[t].path, current_names(tasks[t].raw))
       IN tasks' = [tasks EXCEPT ![t].selected = rows,
                                 ![t].pc = IF rows = {} THEN "recurse" ELSE "delete"]
    /\ UNCHANGED <<remote, dbVars, phase, incremental, buffer, stats, permits, running,
                   historyVars>>
    /\ CrawlFrame

\* remove_missing_entries: the DELETE of the selected ids, and the commit
RemoveDelete(t) ==
    /\ running = t
    /\ tasks[t].pc = "delete"
    /\ entries' = delete_selected(entries, tasks[t].selected)
    /\ tasks' = [tasks EXCEPT ![t].pc = "recurse", ![t].selected = {}]
    /\ UNCHANGED <<remote, sync_meta, status, phase, incremental, buffer, stats, permits,
                   running, historyVars>>
    /\ CrawlFrame

\* mutant of children_of: a skipped directory is not recursed into
children_of_unskipped(skip, raw_entries, rel_path) ==
    IF skip THEN <<>> ELSE subdirs(raw_entries, rel_path)

\* the coroutines created for a visit: one per subdirectory found, whether or
\* not the writes were skipped
children_of(skip, raw_entries, rel_path) == subdirs(raw_entries, rel_path)

\* if subdirs: gather one coroutine per subdirectory; the visit suspends, or
\* returns when there is none
Recurse(t) ==
    /\ running = t
    /\ tasks[t].pc = "recurse"
    /\ LET subs == children_of(tasks[t].skip, tasks[t].raw, tasks[t].path)
       IN tasks' = [tasks EXCEPT ![t].pc = IF Len(subs) = 0 THEN "done" ELSE "waiting"]
                       \o [i \in 1..Len(subs) |-> NewTask(subs[i], t)]
    /\ running' = 0
    /\ UNCHANGED <<remote, dbVars, phase, incremental, buffer, stats, permits, historyVars>>
    /\ CrawlFrame

\* a coroutine that has returned, or raised
finished(task) == task.pc \in {"done", "raised"}

\* asyncio.gather(..., return_exceptions=True) returns once every child
\* coroutine has finished, an exception of a child being one of its results
GatherReturn(t) ==
    /\ phase = "traverse" /\ running = 0
    /\ tasks[t].pc = "waiting"
    /\ \A c \in TaskIds : tasks[c].parent = t => finished(tasks[c])
    /\ tasks' = [tasks EXCEPT ![t].pc = "done"]
    /\ UNCHANGED <<remote, dbVars, phase, incremental, buffer, stats, permits, running,
                   historyVars>>
    /\ CrawlFrame

\* _flush_buffer: whatever is buffered goes to insert_entries_batch
flushed(tbl, buf) == insert_entries_batch(tbl, buf)

\* crawl() after the traversal: await self._flush_buffer()
FlushBuffer ==
    /\ phase = "traverse"
    /\ tasks[1].pc = "done"
    /\ entries' = flushed(entries, buffer)
    /\ passed' = passed (+) BagOfSeq(buffer)
    /\ buffer' = <<>>
    /\ phase' = "flushed"
    /\ UNCHANGED <<remote, sync_meta, status, incremental, stats, tasks, permits, running,
                   pre_entries, pre_meta, visits, meta_reads, crashed>>
    /\ CrawlFrame

\* crawl(): the final update_crawl_state(status="idle", ...)
CrawlEnd ==
    /\ phase = "flushed"
    /\ SetStatus("idle")
    /\ phase' = "ended"
    /\ UNCHANGED <<remote, entries, sync_meta, incremental, buffer, stats, tasks, permits,
                   running, historyVars>>
    /\ OtherFrame

Next ==
    \/ RemoteChange
    \/ RunSync
    \/ CrawlStart
    \/ \E t \in TaskIds : Acquire(t)
    \/ \E t \in TaskIds : FetchOk(t)
    \/ \E t \in TaskIds : FetchFail(t)
    \/ \E t \in TaskIds : Decide(t)
    \/ \E t \in TaskIds : BufferEntries(t)
    \/ \E t \in TaskIds : UpsertMeta(t)
    \/ \E t \in TaskIds : RemoveSelect(t)
    \/ \E t \in TaskIds : RemoveDelete(t)
    \/ \E t \in TaskIds : Recurse(t)
    \/ \E t \in TaskIds : GatherReturn(t)
    \/ FlushBuffer
    \/ CrawlEnd

Spec == Init /\ [][Next]_vars

(***************************************************************************)
(* Properties of a run                                                     *)
(***************************************************************************)
\* the directory that contains an entry: its path without the last segment
ContainingDir(path) ==
    LET parts == split(rstrip(path))
    IN IF Len(parts) <= 1 THEN <<>>
       ELSE join(SubSeq(parts, 1, Len(parts) - 1)) \o <<SLASH>>

\* the path of a listing row: the directory's path joined with the name
JoinedPath(dir, raw) ==
    dir \o raw.name \o (IF raw.is_directory THEN <<SLASH>> ELSE <<>>)

Stored(path) == \E e \in entries : e.path = path

RunEnded == phase = "ended"

\* C1: at the end of an incremental run, for a directory that was skipped on a
\* fingerprint match while its parent was re-processed, every entry stored
\* before the run for a child of the skipped directory is still stored.
C1_SkippedChildrenKept ==
    (RunEnded /\ incremental) =>
        \A v \in visits : \A w \in visits :
            (v.skip /\ ~w.skip /\ v.path # <<>> /\ w.path = ContainingDir(v.path)) =>
                \A e \in pre_entries : ContainingDir(e.path) = v.path => Stored(e.path)

\* C3: at the end of an incremental run, for a directory processed in non-skip
\* mode, no entry that was stored before the run as a direct child of it and
\* whose name is absent from its latest listing is still stored.
C3_StaleChildrenRemoved ==
    (RunEnded /\ incremental) =>
        \A v \in visits : ~v.skip =>
            \A e \in pre_entries :
                (ContainingDir(e.path) = v.path /\ e.name \notin current_names(v.raw))
                    => ~Stored(e.path)

\* C4: when a run (full or incremental) has ended without a fetch failure,
\* every name in the listing of every directory processed in non-skip mode
\* has a stored entry whose path is the directory's path joined with the name.
C4_ListedChildrenStored ==
    (RunEnded /\ stats.errors = 0) =>
        \A v \in visits : ~v.skip =>
            \A i \in 1..Len(v.raw) :
                ~is_dot_name(v.raw[i].name) => Stored(JoinedPath(v.path, v.raw[i]))

\* C4 witness: an incremental run ended without errors, wrote two directories
\* in non-skip mode, flushed and deleted stale entries on the way.
C4_Witness ==
    /\ RunEnded /\ incremental /\ stats.errors = 0
    /\ \E v \in visits : \E w \in visits :
          /\ v.path # w.path /\ ~v.skip /\ ~w.skip
          /\ Len(v.raw) > 1 /\ Len(w.raw) > 1
    /\ \E e \in pre_entries : ~Stored(e.path)

\* C5: while the visit of a directory whose fingerprint matched is executing,
\* no step changes entries, sync_meta or the buffer.
C5_SkipWritesNothing ==
    [][(running # 0 /\ tasks[running].skip) =>
          (entries' = entries /\ sync_meta' = sync_meta /\ buffer' = buffer)]_vars

\* C5 witness: a skipped visit is executing between its row loop and its
\* recursion, with entries and a fingerprint stored for the directory.
C5_Witness ==
    /\ running # 0
    /\ tasks[running].skip
    /\ tasks[running].pc = "recurse"
    /\ Len(tasks[running].raw) > 0
    /\ \E e \in entries : e.parent_path = tasks[running].path

\* C6 (as claimed): no coroutine is ever created for a subdirectory of a
\* directory whose fingerprint matched.
C6_SkippedNotRecursed ==
    \A t \in TaskIds : tasks[t].parent # 0 => ~tasks[tasks[t].parent].skip

\* C6 (amended): a directory whose fingerprint matched is still recursed into:
\* once its visit has gone past the recursion, there is a coroutine for every
\* subdirectory of its listing, and at the end of the run each has been run.
C6_SkippedStillRecursed ==
    \A t \in TaskIds :
        (tasks[t].skip /\ tasks[t].pc \in {"waiting", "done"}) =>
            \A i \in 1..Len(subdirs(tasks[t].raw, tasks[t].path)) :
                \E c \in TaskIds :
                    /\ tasks[c].parent = t
                    /\ tasks[c].path = subdirs(tasks[t].raw, tasks[t].path)[i]
                    /\ RunEnded => tasks[c].pc = "done"

\* C6 witness: a skipped directory with a subdirectory, its visit past the
\* recursion, the subdirectory fetched and parsed.
C6_Witness ==
    \E t \in TaskIds : \E c \in TaskIds :
        /\ tasks[t].skip /\ tasks[t].pc = "waiting"
        /\ tasks[c].parent = t /\ tasks[c].pc = "parsed"

\* C7: a full run never reads a stored fingerprint and never skips; when it
\* has ended, every fetched directory has its fresh fingerprint in sync_meta
\* and every record built from its listing in entries.
C7_FullNeverSkips ==
    ~incremental =>
        /\ meta_reads = {}
        /\ \A v \in visits : ~v.skip
        /\ RunEnded =>
              \A v \in visits :
                  /\ \E m \in sync_meta :
                        m.path = v.path /\ m.content_hash = compute_content_hash(v.raw)
                  /\ \A i \in 1..Len(entries_to_insert(v.raw, v.path)) :
                        entries_to_insert(v.raw, v.path)[i] \in entries

\* C7 witness: a full run has ended that visited a directory whose stored
\* fingerprint equalled the fresh one when the run started.
C7_Witness ==
    /\ RunEnded /\ ~incremental
    /\ \E v \in visits : \E m \in pre_meta :
          /\ m.path = v.path /\ m.content_hash = compute_content_hash(v.raw)
          /\ Len(v.raw) > 0

(***************************************************************************)
(* build_entry on its own: every parent path of depth up to MaxDepth over  *)
(* the segments, with ordinary and '.' segments, and every name            *)
(***************************************************************************)
MaxDepth == 3

PathSegments == {<<"a">>, <<"b">>, <<DOT>>}

EntryNames == {<<"f">>, <<"g">>, <<"a">>}

RECURSIVE ParentPaths(_)
ParentPaths(n) ==
    IF n = 0 THEN {<<>>}
    ELSE ParentPaths(n - 1)
            \cup {p \o seg \o <<SLASH>> : p \in ParentPaths(n - 1), seg \in PathSegments}

BuildInputs ==
    [parent_url_path : ParentPaths(MaxDepth), name : EntryNames, is_directory : BOOLEAN]

InitBuildEntry ==
    /\ remote \in {r \in Remotes : \A d \in RemoteDirs : Len(r[d]) = 1}
    /\ InitDb
    /\ InitCrawler
    /\ changes = {}
    /\ be_in \in BuildInputs
    /\ be_out = EmptyEntry
    /\ be_pc = "input"
    /\ InitSync
    /\ InitStore
    /\ InitAux

\* one call build_entry(href, name, is_directory, size, date, parent_url_path)
CallBuildEntry ==
    /\ be_pc = "input"
    /\ be_out' = build_entry(be_in.name, be_in.name, be_in.is_directory, None, None,
                             be_in.parent_url_path)
    /\ be_pc' = "built"
    /\ UNCHANGED <<remote, dbVars, crawlerVars, historyVars, changes, be_in, syncVars,
                   storeVars, auxVars>>

NextBuild == CallBuildEntry

SpecBuild == InitBuildEntry /\ [][NextBuild]_vars

\* C2: the parent_path of the record build_entry returns is the normalized
\* path of the directory the entry is in, for files and directories at every depth.
C2_ParentPathIsContainingDir ==
    be_pc = "built" => be_out.parent_path = _normalize_path(be_in.parent_url_path)

(***************************************************************************)
(* The entries table on its own: any sequence of insert_entries_batch and  *)
(* remove_missing_entries calls, over records build_entry can return       *)
(***************************************************************************)
MaxBatch == 2

\* ids handed out by AUTOINCREMENT in one behaviour
MaxRowId == 3

\* a record as build_entry returns it with its path forced to what a crawler
\* without _normalize_path stored
LegacyRow(name, is_directory, parent, path) ==
    [build_entry(name, name, is_directory, IF is_directory THEN None ELSE <<"1">>, None, parent)
        EXCEPT !.path = path]

StoreSizes == {<<"1">>, <<"2">>}

StoreRecords ==
    {build_entry(<<"f">>, <<"f">>, FALSE, sz, None, pRoot) : sz \in StoreSizes}
    \cup {build_entry(<<"f">>, <<"f">>, FALSE, <<"1">>, None, pA),
          build_entry(<<"g">>, <<"g">>, FALSE, <<"1">>, None, pRoot),
          build_entry(<<"a", "/">>, <<"a">>, TRUE, None, None, pRoot)}

\* a record the table refuses: its name is None
FailingRecords ==
    {[build_entry(<<"g">>, <<"g">>, FALSE, <<"2">>, None, pRoot) EXCEPT !.name = None]}

\* './f', a row an older crawler has left in the file
StoreLegacyRow == LegacyRow(<<"f">>, FALSE, <<DOT, SLASH>>, <<DOT, SLASH, "f">>)

StorePaths == {r.path : r \in StoreRecords \cup {StoreLegacyRow}}

StoreBatches == UNION {[1..n -> StoreRecords \cup FailingRecords] : n \in 1..MaxBatch}

\* an empty file, or one that holds a row of an older crawler
InitStorage ==
    /\ remote \in {r \in Remotes : \A d \in RemoteDirs : Len(r[d]) = 1}
    /\ sync_meta = {}
    /\ status = "idle"
    /\ InitCrawler
    /\ changes = {}
    /\ InitBuild
    /\ InitSync
    /\ \E batch \in {<<>>, <<StoreLegacyRow>>} :
          LET db == executemany(DbFile({}, {}, {}, 0), batch).db
          IN /\ entries = db.entries
             /\ row_ids = db.row_ids
             /\ fts_index = db.fts
             /\ seq = db.seq
             /\ db_last = [p \in StorePaths |-> {e \in db.entries : e.path = p}]
    /\ db_batch = <<>>
    /\ db_pre = NoCall
    /\ db_raised = FALSE
    /\ db_call = NoDbCall
    /\ InitAux

StoreFrame ==
    UNCHANGED <<remote, status, crawlerVars, historyVars, changes, buildVars, syncVars,
                auxVars>>

\* the database file of the state
StoredDb == DbFile(entries, row_ids, fts_index, seq)

\* the database file becomes db
StoreBecomes(db) ==
    /\ entries' = db.entries
    /\ row_ids' = db.row_ids
    /\ fts_index' = db.fts
    /\ seq' = db.seq

\* history: the record a path carries after a batch is its last record for
\* that path in the batch, or what it carried before
LastUpserted(last, batch, p) ==
    LET at == {i \in 1..Len(batch) : batch[i].path = p}
    IN IF at = {} THEN last[p]
       ELSE {batch[CHOOSE i \in at : \A j \in at : j <= i]}

\* a call insert_entries_batch(batch): one connection and one transaction,
\* executemany, commit or rollback. It may come from another thread while a
\* remove_missing_entries or cleanup call is between two of its statements
StoreUpsert ==
    \E batch \in StoreBatches :
        /\ seq + Len(batch) <= MaxRowId
        /\ LET res == executemany(StoredDb, batch)
           IN /\ StoreBecomes(connect(StoredDb, res))
              /\ db_raised' = res.raised
              /\ db_batch' = IF res.raised THEN <<>> ELSE batch
              /\ db_last' = IF res.raised THEN db_last
                            ELSE [p \in StorePaths |-> LastUpserted(db_last, batch, p)]
        /\ db_pre' = [NoCall EXCEPT !.entries = entries, !.fts = fts_index, !.batch = batch]
        /\ UNCHANGED <<sync_meta, db_call>>
        /\ StoreFrame

\* the ids of the rows of a set
ids_of(ids, rows) == {x.id : x \in {y \in ids : y.path \in {e.path : e \in rows}}}

\* a call remove_missing_entries(parent_path, current_names) of a crawler
\* thread up to its list to_delete: the SELECT runs in autocommit; with nothing
\* to delete the call returns. No lock keeps it from starting while another
\* thread's call or a cleanup call is between two of its statements
StoreRemoveSelect ==
    /\ \E t \in 1..MaxRemoving :
          /\ db_call.remove[t] = {}
          /\ \E parent \in {pRoot, pA} : \E names \in SUBSET {<<"f">>, <<"g">>, <<"a">>} :
                LET ids == ids_of(row_ids, to_delete(entries, parent, names))
                IN db_call' = [db_call EXCEPT !.remove[t] = ids]
    /\ db_batch' = <<>>
    /\ db_raised' = FALSE
    /\ db_pre' = NoCall
    /\ UNCHANGED <<entries, sync_meta, row_ids, fts_index, seq, db_last>>
    /\ StoreFrame

\* the same call: DELETE FROM entries WHERE id IN (to_delete), and the commit
StoreRemoveDelete ==
    /\ \E t \in 1..MaxRemoving :
          /\ db_call.remove[t] # {}
          /\ LET gone == {x.path : x \in {y \in row_ids : y.id \in db_call.remove[t]}}
             IN /\ StoreBecomes(sql_delete(StoredDb, gone))
                /\ db_last' = [p \in StorePaths |-> IF p \in gone THEN {} ELSE db_last[p]]
          /\ db_call' = [db_call EXCEPT !.remove[t] = {}]
    /\ db_batch' = <<>>
    /\ db_raised' = FALSE
    /\ db_pre' = NoCall
    /\ UNCHANGED sync_meta
    /\ StoreFrame

\* a call cleanup_dotslash_duplicates() of POST /api/cleanup, its next
\* SELECT COUNT(*), each in autocommit as long as no DELETE has run; the first
\* of them starts the call. The handler runs on the event loop, one call at a
\* time; the crawler threads run beside it
StoreCleanupCount ==
    /\ db_call.cleanup # <<>> => ~db_call.cleanup.writing
    /\ LET call == IF db_call.cleanup = <<>>
                   THEN [k |-> 1, writing |-> FALSE,
                         counts |-> [key \in {CleanupCounts[i] : i \in DOMAIN CleanupCounts}
                                        |-> 0]]
                   ELSE db_call.cleanup
           c == Cardinality(cleanup_selected(call.k, StoredDb, sync_meta))
           deletes == c > 0 /\ call.k \in 2..5
       IN db_call' = [db_call EXCEPT !.cleanup =
                         [call EXCEPT !.counts[CleanupCounts[call.k]] = c,
                                      !.k = IF deletes THEN @ ELSE @ + 1,
                                      !.writing = deletes \/ call.k = Len(CleanupCounts)]]
    /\ db_batch' = <<>>
    /\ db_raised' = FALSE
    /\ db_pre' = NoCall
    /\ UNCHANGED <<entries, sync_meta, row_ids, fts_index, seq, db_last>>
    /\ StoreFrame

\* the same call from its first writing statement to its commit and return
StoreCleanupCommit ==
    /\ db_call.cleanup # <<>>
    /\ db_call.cleanup.writing
    /\ LET res == cleanup_rest(db_call.cleanup.k, StoredDb, sync_meta,
                               db_call.cleanup.counts, TRUE)
       IN /\ StoreBecomes(res.db)
          /\ sync_meta' = res.meta
          /\ db_last' = [p \in StorePaths |-> db_last[p] \cap res.db.entries]
          /\ db_pre' = [NoCall EXCEPT !.returned = cleanup_returned(res.counts)]
    /\ db_call' = [db_call EXCEPT !.cleanup = <<>>]
    /\ db_batch' = <<>>
    /\ db_raised' = FALSE
    /\ StoreFrame

NextStore ==
    \/ StoreUpsert
    \/ StoreRemoveSelect
    \/ StoreRemoveDelete
    \/ StoreCleanupCount
    \/ StoreCleanupCommit

SpecStore == InitStorage /\ [][NextStore]_vars

\* C10: entries holds exactly one row per path upserted and not deleted, the
\* record most recently upserted for it, and repeating the latest
\* insert_entries_batch call leaves entries as it is.
C10_ReplaceByPath ==
    /\ entries = UNION {db_last[p] : p \in StorePaths}
    /\ \A e1 \in entries : \A e2 \in entries : e1.path = e2.path => e1 = e2
    /\ insert_entries_batch(entries, db_batch) = entries

\* C10 witness: a batch that upserts one path twice, with different fields,
\* into a table that holds another row as well; the second record is stored.
C10_Witness ==
    /\ Len(db_batch) = 2
    /\ db_batch[1].path = db_batch[2].path
    /\ db_batch[1] # db_batch[2]
    /\ db_batch[2] \in entries
    /\ Cardinality(entries) >= 2

\* C11: when the latest insert_entries_batch call raised, entries and the
\* full-text index are what they were before the call: no record of the
\* batch and no index change of it is kept.
C11_BatchAtomic ==
    db_raised => (entries = db_pre.entries /\ fts_index = db_pre.fts)

\* C11 witness: the call raised at its second record after its first record,
\* which was not stored as such before, had been written.
C11_Witness ==
    /\ db_raised
    /\ Len(db_pre.batch) = 2
    /\ ~violates_not_null(db_pre.batch[1])
    /\ db_pre.batch[1] \notin db_pre.entries
    /\ violates_not_null(db_pre.batch[2])
    /\ db_pre.entries # {}

\* C12: the full-text index holds exactly one document for each row of
\* entries and no document for a row id that entries does not have.
C12_IndexMatchesRows ==
    /\ \A d \in fts_index : \E x \in row_ids : x.id = d.rowid
    /\ \A x \in row_ids : Cardinality({d \in fts_index : d.rowid = x.id}) = 1

(***************************************************************************)
(* Pure functions on their own: the variables of the other specifications  *)
(* stay at rest                                                            *)
(***************************************************************************)
InitQuiet ==
    /\ remote \in {r \in Remotes : \A d \in RemoteDirs : Len(r[d]) = 1}
    /\ InitDb
    /\ InitCrawler
    /\ changes = {}
    /\ InitBuild
    /\ InitSync
    /\ InitStore

QuietFrame ==
    UNCHANGED <<remote, dbVars, crawlerVars, historyVars, changes, buildVars, syncVars,
                storeVars>>

(***************************************************************************)
(* compute_content_hash on two listings as parse_directory_listing returns *)
(* them: a size or date that is absent is None, never the empty string     *)
(***************************************************************************)
MaxRows == 2

HashRows ==
    [name : {<<"f">>, <<"g">>}, size : {None, <<"1">>}, date : {None, <<"2">>}]

HashListings == UNION {[1..n -> HashRows] : n \in 0..MaxRows}

InitFingerprint ==
    /\ InitQuiet
    /\ hs_a \in HashListings
    /\ hs_b \in HashListings
    /\ hs_out = <<>>
    /\ hs_pc = "input"
    /\ InitNorm /\ InitSearch /\ InitRest

\* compute_content_hash(a) and compute_content_hash(b)
CallComputeContentHash ==
    /\ hs_pc = "input"
    /\ hs_out' = [a |-> compute_content_hash(hs_a), b |-> compute_content_hash(hs_b)]
    /\ hs_pc' = "hashed"
    /\ UNCHANGED <<hs_a, hs_b, normVars, searchVars, restVars>>
    /\ QuietFrame

NextHash == CallComputeContentHash

SpecHash == InitFingerprint /\ [][NextHash]_vars

\* the number of rows of a listing that carry the triple t
TripleCount(listing, t) ==
    Cardinality({i \in 1..Len(listing) :
                    <<listing[i].name, listing[i].size, listing[i].date>> = t})

SameTriples(a, b) ==
    \A r \in HashRows :
        TripleCount(a, <<r.name, r.size, r.date>>) = TripleCount(b, <<r.name, r.size, r.date>>)

\* C13: two listings have the same content hash exactly when they have the
\* same multiset of (name, size, date) triples: the hash ignores the order of
\* the rows and changes with any changed, added or removed row.
C13_HashOfTripleMultiset ==
    hs_pc = "hashed" => ((hs_out.a = hs_out.b) <=> SameTriples(hs_a, hs_b))

\* C13 witness: two different orders of two different rows were hashed to
\* the same value.
C13_Witness ==
    /\ hs_pc = "hashed"
    /\ Len(hs_a) = 2 /\ hs_a[1] # hs_a[2]
    /\ hs_b = <<hs_a[2], hs_a[1]>>
    /\ hs_out.a = hs_out.b

(***************************************************************************)
(* _normalize_path on every string over '/', '.' and a letter              *)
(***************************************************************************)
MaxPathLen == 6

PathChars == {SLASH, DOT, "a"}

PathStrings == UNION {[1..n -> PathChars] : n \in 0..MaxPathLen}

InitNormalize ==
    /\ InitQuiet
    /\ np_in \in PathStrings
    /\ np_out = <<>>
    /\ np_pc = "input"
    /\ InitHash /\ InitSearch /\ InitRest

\* _normalize_path(p) and _normalize_path(_normalize_path(p))
CallNormalizePath ==
    /\ np_pc = "input"
    /\ np_out' = [once |-> _normalize_path(np_in),
                  twice |-> _normalize_path(_normalize_path(np_in))]
    /\ np_pc' = "done"
    /\ UNCHANGED <<np_in, hashVars, searchVars, restVars>>
    /\ QuietFrame

NextNorm == CallNormalizePath

SpecNorm == InitNormalize /\ [][NextNorm]_vars

\* C14: normalizing a normalized path gives the same path.
C14_NormalizeIdempotent ==
    np_pc = "done" => np_out.twice = np_out.once

\* C14 witness: a path with a leading slash, a '.' segment, a doubled slash
\* and a trailing slash was normalized to something else.
C14_Witness ==
    /\ np_pc = "done"
    /\ np_in = <<SLASH, DOT, SLASH, SLASH, "a", SLASH>>
    /\ np_out.once = <<"a", SLASH>>

(***************************************************************************)
(* A run over pages with arbitrary link texts: the root page lists at most *)
(* one row, every page below it is one listing of one or two rows, and the *)
(* archive has no page deeper than MaxWalkDepth                            *)
\* run_sync, once per life of the process
StartRun ==
    /\ phase = "idle"
    /\ RunSync

(***************************************************************************)
MaxWalkDepth == 2

MaxVisits == 3

\* link texts: empty, ordinary, current-directory and hidden names, names
\* with escaped and unescaped slashes and dots
WalkTexts ==
    {<<>>, <<"a">>, <<"f">>, <<DOT>>, <<"%2E">>, <<DOT, "%2F">>, <<"a", "%2F">>,
     <<"a", SLASH, DOT, SLASH, "f">>, <<DOT, "a">>}

\* the date cell as the archive prints it
WalkDate == <<"2", "0", "2", "4", "-", "0", "1", "-", "1", "5", " ", "1", "0", ":", "3", "0">>

\* the size and date cells of a row: both missing, or both there
WalkCells == {[size |-> <<>>, date |-> <<>>], [size |-> <<"1">>, date |-> WalkDate]}

WalkRows ==
    UNION {parse_table_row(text, href, cells.size, cells.date) :
              text \in WalkTexts, href \in {<<"x">>, <<"x", SLASH>>}, cells \in WalkCells}

\* listings of one row, and of one row after the ordinary file row
WalkListings ==
    {<<r>> : r \in WalkRows}
        \cup {<<q, r>> : q \in parse_table_row(<<"f">>, <<"x">>, <<"1">>, WalkDate),
                         r \in WalkRows}

\* the root page: empty, or one row
WalkTops == {<<>>} \cup {<<r>> : r \in WalkRows}

\* path.count("/")
slashes(path) == Cardinality({i \in 1..Len(path) : path[i] = SLASH})

\* the directory paths that links of these pages lead to in n steps from the
\* root
RECURSIVE WalkPathsTo(_)
WalkPathsTo(n) ==
    IF n = 0 THEN {pRoot}
    ELSE LET above == WalkPathsTo(n - 1)
         IN above \cup {sub_path_of(p, r.name) : p \in above, r \in WalkRows}

\* the pages the archive has
WalkPaths == {p \in WalkPathsTo(MaxWalkDepth) : slashes(p) <= MaxWalkDepth}

\* the file 'a/b' of an earlier run, which no page lists
WalkStale == build_entry(<<"b">>, <<"b">>, FALSE, <<"1">>, None, pA)

\* the database is empty, or holds what an earlier run stored for the root
\* page, and the file 'a/b'
InitVisit ==
    /\ \E top \in WalkTops : \E below \in WalkListings : \E stored \in BOOLEAN :
          /\ remote = [p \in WalkPaths |-> IF p = pRoot THEN top ELSE below]
          /\ entries = IF stored
                       THEN insert_entries_batch({WalkStale}, entries_to_insert(top, pRoot))
                       ELSE {}
          /\ sync_meta = IF stored
                         THEN upsert_sync_meta({}, migrated_columns, pRoot, Len(top),
                                               compute_content_hash(top)).meta
                         ELSE {}
    /\ status = "idle"
    /\ InitCrawler
    /\ changes = {}
    /\ InitBuild
    /\ InitSync
    /\ InitStore
    /\ InitAux

\* status 200, for the first MaxVisits coroutines of the run
FetchPage(t) ==
    /\ t <= MaxVisits
    /\ FetchOk(t)

NextVisit ==
    \/ StartRun
    \/ CrawlStart
    \/ \E t \in TaskIds : Acquire(t)
    \/ \E t \in TaskIds : FetchPage(t)
    \/ \E t \in TaskIds : FetchFail(t)
    \/ \E t \in TaskIds : Decide(t)
    \/ \E t \in TaskIds : BufferEntries(t)
    \/ \E t \in TaskIds : UpsertMeta(t)
    \/ \E t \in TaskIds : RemoveSelect(t)
    \/ \E t \in TaskIds : RemoveDelete(t)
    \/ \E t \in TaskIds : Recurse(t)
    \/ \E t \in TaskIds : GatherReturn(t)
    \/ FlushBuffer
    \/ CrawlEnd

SpecVisit == InitVisit /\ [][NextVisit]_vars

has_dot_segment(path) == \E i \in 1..Len(split(path)) : split(path)[i] = <<DOT>>

\* the records the run has built so far: those insert_entries_batch took and
\* those still buffered
RunRecords == BagToSet(passed) \cup {buffer[i] : i \in 1..Len(buffer)}

\* C15: no path and no parent_path of a record a run builds, and no path of
\* sync_meta, has a segment that is '.'.
C15_NoDotSegmentStored ==
    /\ \A r \in RunRecords : ~has_dot_segment(r.path) /\ ~has_dot_segment(r.parent_path)
    /\ \A e \in entries : ~has_dot_segment(e.path) /\ ~has_dot_segment(e.parent_path)
    /\ \A m \in sync_meta : ~has_dot_segment(m.path)

\* C15 witness: a run has ended in which, below the root, a row whose name has
\* a '.' segment inside was stored next to an ordinary one, and the fingerprint
\* of their directory was written.
C15_Witness ==
    /\ phase = "ended"
    /\ \E t \in TaskIds :
          /\ tasks[t].path # pRoot
          /\ Len(tasks[t].raw) = 2
          /\ tasks[t].raw[2].name = <<"a", SLASH, DOT, SLASH, "f">>
          /\ \E m \in sync_meta : m.path = tasks[t].path
          /\ Cardinality({e \in entries : e.name \in current_names(tasks[t].raw)}) >= 2

\* C16: every record a run builds is a directory exactly when its path ends
\* with '/'.
C16_DirectoryIffTrailingSlash ==
    \A r \in RunRecords : r.is_directory <=> endswith(r.path, SLASH)

(***************************************************************************)
(* Database.search: the sanitizer of the query, the FTS5 match, the        *)
(* filters, the count and the page                                          *)
(***************************************************************************)
SPACE == " "
QUOTE == "\""
APOSTROPHE == "'"

UPPERCASE ==
    <<"A", "B", "C", "D", "E", "F", "G", "H", "I", "J", "K", "L", "M",
      "N", "O", "P", "Q", "R", "S", "T", "U", "V", "W", "X", "Y", "Z">>
LOWERCASE ==
    <<"a", "b", "c", "d", "e", "f", "g", "h", "i", "j", "k", "l", "m",
      "n", "o", "p", "q", "r", "s", "t", "u", "v", "w", "x", "y", "z">>
DIGITS == {"0", "1", "2"}

\* what \w and the unicode61 tokenizer take for a character of a word; '_' is
\* of a word for \w and a separator for the tokenizer
Alnum == {UPPERCASE[i] : i \in 1..Len(UPPERCASE)} \cup {LOWERCASE[i] : i \in 1..Len(LOWERCASE)}
             \cup DIGITS
WordChars == Alnum \cup {"_"}

\* str.lower, one character and a string
lower_char(c) ==
    IF \E i \in 1..Len(UPPERCASE) : UPPERCASE[i] = c
    THEN LOWERCASE[CHOOSE i \in 1..Len(UPPERCASE) : UPPERCASE[i] = c]
    ELSE c
lower(s) == [i \in 1..Len(s) |-> lower_char(s[i])]

\* the character class of the first re.sub of search
SpecialChars ==
    {"+", "&", "|", "/", "\\", "~", "^", "{", "}", "(", ")", "[", "]", "<", ">",
     ":", ";", "!", "@", "#", "$", "%"}

\* re.sub(r'[+&|/\\~^{}()\[\]<>:;!@#$%]', ' ', query)
sub_special(query) ==
    [i \in 1..Len(query) |-> IF query[i] \in SpecialChars THEN SPACE ELSE query[i]]

FTS_OPERATORS == {<<"a", "n", "d">>, <<"o", "r">>, <<"n", "o", "t">>, <<"n", "e", "a", "r">>}

\* \b(AND|OR|NOT|NEAR)\b with IGNORECASE matches s[a..b]
operator_match(s, a, b) ==
    /\ lower(SubSeq(s, a, b)) \in FTS_OPERATORS
    /\ (a = 1 \/ s[a - 1] \notin WordChars)
    /\ (b = Len(s) \/ s[b + 1] \notin WordChars)

\* re.sub(r'\b(AND|OR|NOT|NEAR)\b', '', cleaned, flags=re.IGNORECASE)
sub_operators(s) ==
    LET in_match(i) == \E a \in 1..i, b \in i..Len(s) : operator_match(s, a, b)
        kept[i \in 0..Len(s)] ==
            IF i = 0 THEN <<>>
            ELSE IF in_match(i) THEN kept[i - 1] ELSE Append(kept[i - 1], s[i])
    IN kept[Len(s)]

\* str.split() on whitespace
RECURSIVE split_ws(_)
split_ws(s) ==
    IF s = <<>> THEN <<>>
    ELSE IF s[1] = SPACE THEN split_ws(Tail(s))
    ELSE LET ends == {j \in 1..Len(s) : s[j] = SPACE}
             n == IF ends = {} THEN Len(s) + 1
                  ELSE CHOOSE j \in ends : \A k \in ends : j <= k
         IN <<SubSeq(s, 1, n - 1)>> \o split_ws(SubSeq(s, n, Len(s)))

\* token.strip('"\'')
RECURSIVE strip_quotes(_)
strip_quotes(token) ==
    IF token = <<>> THEN token
    ELSE IF token[1] \in {QUOTE, APOSTROPHE} THEN strip_quotes(Tail(token))
    ELSE IF token[Len(token)] \in {QUOTE, APOSTROPHE}
         THEN strip_quotes(SubSeq(token, 1, Len(token) - 1))
    ELSE token

\* mutant of fts_terms: the operator words stay in the query
fts_terms_keeping_operators(query) ==
    LET tokens == split_ws(sub_special(query))
        stripped == [i \in 1..Len(tokens) |-> strip_quotes(tokens[i])]
    IN SelectSeq(stripped, LAMBDA token : token # <<>>)

\* the phrases of fts_terms: the tokens left after the two substitutions,
\* without their outer quotes, the empty ones skipped
fts_terms(query) ==
    LET tokens == split_ws(sub_operators(sub_special(query)))
        stripped == [i \in 1..Len(tokens) |-> strip_quotes(tokens[i])]
    IN SelectSeq(stripped, LAMBDA token : token # <<>>)

\* tokenize='unicode61': the maximal runs of letters and digits, case folded
RECURSIVE unicode61(_)
unicode61(text) ==
    IF text = <<>> THEN <<>>
    ELSE IF text[1] \notin Alnum THEN unicode61(Tail(text))
    ELSE LET ends == {j \in 1..Len(text) : text[j] \notin Alnum}
             n == IF ends = {} THEN Len(text) + 1
                  ELSE CHOOSE j \in ends : \A k \in ends : j <= k
         IN <<lower(SubSeq(text, 1, n - 1))>> \o unicode61(SubSeq(text, n, Len(text)))

is_prefix(p, t) == Len(p) <= Len(t) /\ SubSeq(t, 1, Len(p)) = p

\* "term"* against one column: the term's tokens in a row, the last one as a
\* prefix; a term without a token matches nothing
phrase_in_column(term, column) ==
    LET want == unicode61(term)
        have == IF column = None THEN <<>> ELSE unicode61(column)
    IN /\ want # <<>>
       /\ \E start \in 1..Len(have) :
             /\ start + Len(want) - 1 <= Len(have)
             /\ \A k \in 1..(Len(want) - 1) : have[start + k - 1] = want[k]
             /\ is_prefix(want[Len(want)], have[start + Len(want) - 1])

FtsColumns == {"name", "path", "collection", "platform", "region"}

\* entries_fts MATCH '"t1"* AND "t2"* ...' on one document
fts_match(terms, doc) ==
    \A i \in 1..Len(terms) : \E col \in FtsColumns : phrase_in_column(terms[i], doc[col])

COMMA == ","

\* value.split(",")
RECURSIVE split_comma(_)
split_comma(value) ==
    LET at == {j \in 1..Len(value) : value[j] = COMMA}
    IN IF at = {} THEN <<value>>
       ELSE LET n == CHOOSE j \in at : \A k \in at : j <= k
            IN <<SubSeq(value, 1, n - 1)>> \o split_comma(SubSeq(value, n + 1, Len(value)))

\* str.strip() of whitespace
RECURSIVE strip_ws(_)
strip_ws(v) ==
    IF v = <<>> THEN v
    ELSE IF v[1] = SPACE THEN strip_ws(Tail(v))
    ELSE IF v[Len(v)] = SPACE THEN strip_ws(SubSeq(v, 1, Len(v) - 1))
    ELSE v

\* [v.strip() for v in value.split(",") if v.strip()], as a set
filter_values(value) ==
    LET parts == split_comma(value)
    IN {strip_ws(parts[i]) : i \in 1..Len(parts)} \ {<<>>}

\* a filter argument is given when it is neither None nor ""
given(value) == value # None /\ value # <<>>

\* mutant of add_multi_filter: the argument compared as one value
single_value_filter(row_value, value) == row_value = value

\* add_multi_filter: the condition it appends, TRUE when it appends none
add_multi_filter(row_value, value) ==
    filter_values(value) # {} => row_value \in filter_values(value)

\* the WHERE clause of search on one row of the join
where(row, terms, a) ==
    /\ fts_match(terms, row.doc)
    /\ a.files_only => ~row.e.is_directory
    /\ given(a.collection) => add_multi_filter(row.e.collection, a.collection)
    /\ given(a.platform) => add_multi_filter(row.e.platform, a.platform)
    /\ given(a.file_type) => row.e.file_type = a.file_type
    /\ given(a.region) => add_multi_filter(row.e.region, a.region)

\* FROM entries_fts JOIN entries e ON entries_fts.rowid = e.id WHERE ...
matching(table, index, terms, a) ==
    {row \in {[e |-> e, doc |-> doc] : e \in table, doc \in index} :
        row.doc.rowid = row.e.id /\ where(row, terms, a)}

\* ORDER BY: the arrangements of the matched rows; the bm25 ranks and the
\* collations that pick one of them are not computed
orderings(rows) ==
    {o \in [1..Cardinality(rows) -> rows] : \A i, j \in DOMAIN o : o[i] = o[j] => i = j}

\* LIMIT :limit OFFSET :offset
limit_offset(order, limit, offset) ==
    SubSeq(order, offset + 1, IF offset + limit < Len(order) THEN offset + limit ELSE Len(order))

\* mutant of page_count: the division rounds down
page_count_floor(total, per_page) == total \div per_page

\* (total + per_page - 1) // per_page
page_count(total, per_page) == (total + per_page - 1) \div per_page

\* the dict of the early return and of the handler's except branch
empty_result(page, per_page) ==
    [total |-> 0, page |-> page, per_page |-> per_page, pages |-> 0, results |-> <<>>]

\* the arrangements the results query can fetch from for these arguments
search_orders(a) == orderings({row.e : row \in matching(a.table, a.index, fts_terms(a.query), a)})

\* the first statement of search: SELECT COUNT(*) over the join
count_total(a) == Cardinality(matching(a.table, a.index, fts_terms(a.query), a))

\* the dict search returns: the total its first statement counted and the
\* page its second statement fetched from an arrangement of the matches
search_result(a, total, order) ==
    [total |-> total, page |-> a.page, per_page |-> a.per_page,
     pages |-> page_count(total, a.per_page),
     results |-> limit_offset(order, a.per_page, (a.page - 1) * a.per_page)]

\* a statement of search failing in the storage layer
search_raises ==
    [raised |-> TRUE, queried |-> TRUE, order |-> <<>>, counted |-> {}, result |-> <<>>]

\* backend/models.py: the fields EntryResult declares
EntryResultFields ==
    {"path", "name", "is_directory", "file_size", "last_modified", "collection",
     "platform", "region", "file_type", "parent_path"}

\* the value is a bool (for a column of entries: the integer 0 or 1)
is_bool(v) == ToString(v) \in {"TRUE", "FALSE"}

\* EntryResult(**row): the declared fields, None for an optional one the row
\* does not carry; the other keys of the row (id, rank) are dropped. path,
\* name and is_directory are required, and None is refused for a str and for
\* the bool
EntryResult(row) ==
    IF \/ \E f \in {"path", "name", "is_directory"} : f \notin DOMAIN row
       \/ row.path = None \/ row.name = None
       \/ ~is_bool(row.is_directory)
    THEN [raised |-> TRUE, value |-> <<>>]
    ELSE [raised |-> FALSE,
          value |-> [f \in EntryResultFields |-> IF f \in DOMAIN row THEN row[f] ELSE None]]

\* SearchResponse(**result): the four numbers and the rows as EntryResult;
\* raises when a row is refused
SearchResponse(result) ==
    IF \E i \in 1..Len(result.results) : EntryResult(result.results[i]).raised
    THEN [raised |-> TRUE, value |-> <<>>]
    ELSE [raised |-> FALSE,
          value |-> [total |-> result.total, page |-> result.page,
                     per_page |-> result.per_page, pages |-> result.pages,
                     results |-> [i \in 1..Len(result.results) |->
                                     EntryResult(result.results[i]).value]]]

\* the try block of the handler: db.search, then SearchResponse(**result)
search_tried(outcome) ==
    IF outcome.raised THEN [raised |-> TRUE, value |-> <<>>]
    ELSE SearchResponse(outcome.result)

\* mutant of api_search: no except branch
api_search_unguarded(outcome, page, per_page) ==
    LET tried == search_tried(outcome)
    IN IF tried.raised THEN [status |-> 500, body |-> <<>>]
       ELSE [status |-> 200, body |-> tried.value]

\* the /api/search handler around the outcome of db.search: what the try
\* block returns, or what the except branch returns; an exception that leaves
\* the handler is answered with status 500
api_search(outcome, page, per_page) ==
    LET tried == search_tried(outcome)
        caught == SearchResponse(empty_result(page, per_page))
    IN IF ~tried.raised THEN [status |-> 200, body |-> tried.value]
       ELSE IF ~caught.raised THEN [status |-> 200, body |-> caught.value]
       ELSE [status |-> 500, body |-> <<>>]

MaxQueryLen == 3
MaxPage == 2
MaxPerPage == 2

\* a row of entries as build_entry makes it for a listing row without size
\* and date cells, under the id the table gave it
EntryRow(id, path, name, is_directory, collection, platform, region, file_type) ==
    [id |-> id, path |-> path, name |-> name, is_directory |-> is_directory,
     file_size |-> None, last_modified |-> None,
     collection |-> collection, platform |-> platform, region |-> region,
     file_type |-> file_type, parent_path |-> parent_path_of(path)]

\* entries_ai: the document of a row
index_doc(e) ==
    [rowid |-> e.id, name |-> e.name, path |-> e.path, collection |-> e.collection,
     platform |-> e.platform, region |-> e.region]

\* 'ra/nd/or f.zip' (replaced once, so under id 2), 're/nd/fa (USA).iso',
\* the directory 'ra/fa/' and 'ra/to/fa.zip'
SearchTable ==
    {EntryRow(2, <<"r", "a", "/", "n", "d", "/", "o", "r", " ", "f", ".", "z", "i", "p">>,
              <<"o", "r", " ", "f", ".", "z", "i", "p">>, FALSE,
              <<"r", "a">>, <<"n", "d">>, None, <<"z", "i", "p">>),
     EntryRow(3, <<"r", "e", "/", "n", "d", "/", "f", "a", " ", "(", "U", "S", "A", ")", ".", "i", "s", "o">>,
              <<"f", "a", " ", "(", "U", "S", "A", ")", ".", "i", "s", "o">>, FALSE,
              <<"r", "e">>, <<"n", "d">>, <<"U", "S", "A">>, <<"i", "s", "o">>),
     EntryRow(4, <<"r", "a", "/", "f", "a", "/">>, <<"f", "a">>, TRUE,
              <<"r", "a">>, <<"f", "a">>, None, None),
     EntryRow(5, <<"r", "a", "/", "t", "o", "/", "f", "a", ".", "z", "i", "p">>,
              <<"f", "a", ".", "z", "i", "p">>, FALSE,
              <<"r", "a">>, <<"t", "o">>, None, <<"z", "i", "p">>)}

\* the documents of the rows and the document INSERT OR REPLACE left behind
\* for the replaced row 1
SearchIndex ==
    {index_doc(e) : e \in SearchTable}
        \cup {index_doc(EntryRow(1, <<"r", "a", "/", "n", "d", "/", "o", "r", " ", "f", ".", "z", "i", "p">>,
                                 <<"o", "r", " ", "f", ".", "z", "i", "p">>, FALSE,
                                 <<"r", "a">>, <<"n", "d">>, None, <<"z", "i", "p">>))}

QueryChars == {"O", "R", "o", "N", "T", "f", SPACE, "+", QUOTE}

QueryStrings == UNION {[1..n -> QueryChars] : n \in 0..MaxQueryLen}

\* the calls with any query and no filter
PlainCalls ==
    [query : QueryStrings, collection : {None}, platform : {None}, file_type : {None},
     region : {None}, files_only : {TRUE}, page : {1}, per_page : {1},
     table : {SearchTable}, index : {SearchIndex}]

\* the calls with a few queries and any filters and page
FilteredCalls ==
    [query : {<<"f">>, <<"f", "a", " ", "n", "d">>, <<"r", "a">>},
     collection : {None, <<"r", "a">>, <<"r", "a", ",", " ", "r", "e">>, <<",">>},
     platform : {None, <<"n", "d", ",", "t", "o">>},
     file_type : {None, <<"z", "i", "p">>, <<"z", "i", "p", ",", "i", "s", "o">>},
     region : {None, <<"U", "S", "A">>},
     files_only : BOOLEAN, page : 1..MaxPage, per_page : 1..MaxPerPage,
     table : {SearchTable}, index : {SearchIndex}]

\* what another connection commits while a search runs: the crawler's DELETE of
\* 'ra/to/fa.zip', whose trigger deletes its document, or its INSERT of
\* 'ra/to/fb.zip', whose trigger adds one
SearchGone ==
    {e \in SearchTable : e.id = 5}

SearchNew ==
    {EntryRow(6, <<"r", "a", "/", "t", "o", "/", "f", "b", ".", "z", "i", "p">>,
              <<"f", "b", ".", "z", "i", "p">>, FALSE,
              <<"r", "a">>, <<"t", "o">>, None, <<"z", "i", "p">>)}

SearchCommits ==
    {[table |-> SearchTable \ SearchGone,
      index |-> SearchIndex \ {index_doc(e) : e \in SearchGone}],
     [table |-> SearchTable \cup SearchNew,
      index |-> SearchIndex \cup {index_doc(e) : e \in SearchNew}]}

InitQuery ==
    /\ InitQuiet
    /\ sr_in \in PlainCalls \cup FilteredCalls
    /\ sr_out = <<>>
    /\ sr_pc = "input"
    /\ InitHash /\ InitNorm /\ InitRest

SearchFrame ==
    /\ UNCHANGED <<hashVars, normVars, restVars>>
    /\ QuietFrame

\* search with no term left in the query: the early return, before a
\* connection is opened
SearchEmpty ==
    /\ sr_pc = "input"
    /\ fts_terms(sr_in.query) = <<>>
    /\ sr_out' = [raised |-> FALSE, queried |-> FALSE, order |-> <<>>, counted |-> {},
                  result |-> empty_result(sr_in.page, sr_in.per_page)]
    /\ sr_pc' = "searched"
    /\ UNCHANGED sr_in
    /\ SearchFrame

\* the COUNT statement, on the file as it is now
SearchCount ==
    /\ sr_pc = "input"
    /\ fts_terms(sr_in.query) # <<>>
    /\ sr_out' = [total |-> count_total(sr_in), counted |-> sr_in.table]
    /\ sr_pc' = "counted"
    /\ UNCHANGED sr_in
    /\ SearchFrame

\* the results statement, on the file as it is now, and the return
SearchPage ==
    /\ sr_pc = "counted"
    /\ \E order \in search_orders(sr_in) :
          sr_out' = [raised |-> FALSE, queried |-> TRUE, order |-> order,
                     counted |-> sr_out.counted,
                     result |-> search_result(sr_in, sr_out.total, order)]
    /\ sr_pc' = "searched"
    /\ UNCHANGED sr_in
    /\ SearchFrame

\* one of the two statements fails in the storage layer
SearchRaises ==
    /\ sr_pc \in {"input", "counted"}
    /\ fts_terms(sr_in.query) # <<>>
    /\ sr_out' = search_raises
    /\ sr_pc' = "raised"
    /\ UNCHANGED sr_in
    /\ SearchFrame

\* another connection commits, before the search or between its statements
SearchCommit ==
    /\ sr_pc \in {"input", "counted"}
    /\ sr_in.table = SearchTable
    /\ \E c \in SearchCommits :
          sr_in' = [sr_in EXCEPT !.table = c.table, !.index = c.index]
    /\ UNCHANGED <<sr_out, sr_pc>>
    /\ SearchFrame

\* GET /api/search with a q the declaration refuses (min_length=1): the
\* framework answers 422 before the handler runs, and db.search is not called
RefuseApiSearch ==
    /\ sr_pc = "input"
    /\ sr_in.files_only
    /\ Len(sr_in.query) < 1
    /\ sr_out' = [raised |-> FALSE, queried |-> FALSE,
                  response |-> [status |-> 422, body |-> <<>>]]
    /\ sr_pc' = "refused"
    /\ UNCHANGED sr_in
    /\ SearchFrame

\* GET /api/search with a q, page and per_page the declaration accepts: the
\* handler answers with what db.search returned, or after it raised
GetApiSearch ==
    /\ sr_pc \in {"searched", "raised"}
    /\ sr_in.files_only
    /\ Len(sr_in.query) >= 1
    /\ sr_in.page >= 1
    /\ sr_in.per_page \in 1..200
    /\ sr_out' = [raised |-> sr_out.raised, queried |-> sr_out.queried,
                  response |-> api_search(sr_out, sr_in.page, sr_in.per_page)]
    /\ sr_pc' = "responded"
    /\ UNCHANGED sr_in
    /\ SearchFrame

NextSearch ==
    \/ SearchEmpty
    \/ SearchCount
    \/ SearchPage
    \/ SearchRaises
    \/ SearchCommit
    \/ RefuseApiSearch
    \/ GetApiSearch

SpecSearch == InitQuery /\ [][NextSearch]_vars

\* the rows of the table whose indexed columns hold every term of the query
query_rows(a) == {e \in a.table : fts_match(fts_terms(a.query), index_doc(e))}

\* the rows C17 describes when every one of the four filters is read as a
\* comma separated set
rows_of_four_sets(a) ==
    {e \in query_rows(a) :
        /\ a.files_only => ~e.is_directory
        /\ \A field \in {"collection", "platform", "region", "file_type"} :
              given(a[field]) => e[field] \in filter_values(a[field])}

\* the rows when collection, platform and region are sets of trimmed values,
\* a set without a value filters nothing, and file_type is one value
rows_of_three_sets(a) ==
    {e \in query_rows(a) :
        /\ a.files_only => ~e.is_directory
        /\ \A field \in {"collection", "platform", "region"} :
              (given(a[field]) /\ filter_values(a[field]) # {})
                  => e[field] \in filter_values(a[field])
        /\ given(a.file_type) => e.file_type = a.file_type}

returned_rows == {sr_out.result.results[k] : k \in 1..Len(sr_out.result.results)}

\* the rows the COUNT statement of the search saw
counted_in == [sr_in EXCEPT !.table = sr_out.counted]

\* C17 as claimed: a search that reaches the index returns rows of the query
\* that pass files_only and lie, for each of collection, platform, region and
\* file_type that is supplied, in that filter's comma separated set, and
\* total is the number of these rows.
C17_FourFilterSets ==
    (sr_pc = "searched" /\ sr_out.queried) =>
        /\ sr_out.result.total = Cardinality(rows_of_four_sets(sr_in))
        /\ returned_rows \subseteq rows_of_four_sets(sr_in)

\* C17 amended: the same with file_type compared as a single value and with a
\* filter that holds no value (only commas and spaces) filtering nothing;
\* total is the number of such rows when the count statement ran, the
\* returned rows are such rows when the results statement ran.
C17_ThreeFilterSets ==
    (sr_pc = "searched" /\ sr_out.queried) =>
        /\ sr_out.result.total = Cardinality(rows_of_three_sets(counted_in))
        /\ returned_rows \subseteq rows_of_three_sets(sr_in)
        /\ (sr_in.page = 1 /\ sr_in.per_page >= Cardinality(rows_of_three_sets(sr_in)))
              => returned_rows = rows_of_three_sets(sr_in)

\* C17 witness: a search with a two-valued collection filter and a platform
\* filter, directories included, returned both matches on one page.
C17_Witness ==
    /\ sr_pc = "searched"
    /\ sr_in.collection = <<"r", "a", ",", " ", "r", "e">>
    /\ sr_in.platform = <<"n", "d", ",", "t", "o">>
    /\ sr_in.file_type = <<"z", "i", "p">>
    /\ ~sr_in.files_only
    /\ sr_out.result.total = 2
    /\ Len(sr_out.result.results) = 2

\* C18: a search returns at most per_page rows, those at positions
\* (page-1)*per_page onwards of the ordered matches, and pages is total
\* divided by per_page rounded up.
C18_PageOfOrderedMatches ==
    sr_pc = "searched" =>
        LET r == sr_out.result
            offset == (r.page - 1) * r.per_page
            left == IF Len(sr_out.order) > offset THEN Len(sr_out.order) - offset ELSE 0
        IN /\ r.page = sr_in.page /\ r.per_page = sr_in.per_page
           /\ Len(r.results) <= r.per_page
           /\ Len(r.results) = IF left < r.per_page THEN left ELSE r.per_page
           /\ \A k \in 1..Len(r.results) : r.results[k] = sr_out.order[offset + k]
           /\ r.pages * r.per_page >= r.total
           /\ (r.pages - 1) * r.per_page < r.total

\* C18 witness: the second page of three matches, two to a page, holds one row.
C18_Witness ==
    /\ sr_pc = "searched"
    /\ sr_in.page = 2 /\ sr_in.per_page = 2
    /\ sr_out.result.total = 3
    /\ sr_out.result.pages = 2
    /\ Len(sr_out.result.results) = 1

\* the characters that separate the words of a query for C19: whitespace, the
\* stripped punctuation and the quote characters
Delimiters == SpecialChars \cup {SPACE, QUOTE, APOSTROPHE}

\* every maximal run of other characters is AND, OR, NOT or NEAR in any case
operator_only(query) ==
    \A a \in 1..Len(query), b \in 1..Len(query) :
        (/\ a <= b
         /\ \A i \in a..b : query[i] \notin Delimiters
         /\ (a = 1 \/ query[a - 1] \in Delimiters)
         /\ (b = Len(query) \/ query[b + 1] \in Delimiters))
            => lower(SubSeq(query, a, b)) \in FTS_OPERATORS

\* C19: a search whose query is empty or made only of operator keywords,
\* stripped punctuation, quotes and spaces returns total 0, pages 0 and no
\* results, raises nothing and runs no statement on the index.
C19_OperatorOnlyQueryIsEmpty ==
    (sr_pc \in {"searched", "raised"} /\ operator_only(sr_in.query)) =>
        /\ ~sr_out.raised
        /\ ~sr_out.queried
        /\ sr_out.result = empty_result(sr_in.page, sr_in.per_page)

\* C19 witness: the query 'NoT' was searched.
C19_Witness ==
    /\ sr_pc = "searched"
    /\ sr_in.query = <<"N", "o", "T">>
    /\ ~sr_out.queried

\* the body is a SearchResponse: four numbers and rows that carry the
\* declared fields and no other, with a path and a name
well_formed(body) ==
    /\ DOMAIN body = {"total", "page", "per_page", "pages", "results"}
    /\ body.total \in Nat /\ body.pages \in Nat
    /\ \A i \in 1..Len(body.results) :
          /\ DOMAIN body.results[i] = EntryResultFields
          /\ body.results[i].path # None /\ body.results[i].name # None

\* C20 as claimed: every request, whatever its query, is answered with a
\* well-formed result and never with an error, and with the empty result for
\* the requested page and per_page when db.search raised.
C20_EveryQueryAnswered ==
    sr_pc \in {"responded", "refused"} =>
        /\ sr_out.response.status = 200
        /\ well_formed(sr_out.response.body)
        /\ sr_out.raised =>
              sr_out.response.body = empty_result(sr_in.page, sr_in.per_page)

\* C20 amended: a request with a query of at least one character is answered
\* by the handler with status 200 and a well-formed result, which is the empty
\* result for the requested page and per_page when db.search raised; a request
\* with an empty query is refused with status 422 and db.search is not called.
C20_HandlerAnswersEmpty ==
    /\ sr_pc = "responded" =>
          /\ Len(sr_in.query) >= 1
          /\ sr_out.response.status = 200
          /\ well_formed(sr_out.response.body)
          /\ sr_out.raised =>
                sr_out.response.body = empty_result(sr_in.page, sr_in.per_page)
    /\ sr_pc = "refused" =>
          /\ Len(sr_in.query) = 0
          /\ sr_out.response.status = 422
          /\ ~sr_out.queried

\* C20 witness: a request for page 2 was answered after db.search raised.
C20_Witness ==
    /\ sr_pc = "responded"
    /\ sr_out.raised
    /\ sr_in.page = 2
    /\ sr_out.response.body.page = 2

(***************************************************************************)
(* cleanup_dotslash_duplicates on a file that holds rows of an older       *)
(* crawler, called twice                                                    *)
(***************************************************************************)
\* the dict cleanup_dotslash_duplicates returns: each count is taken right
\* before its DELETE, on the rows the earlier DELETEs left
cleanup_counts(db, meta) ==
    LET mid == {e \in db.entries : like_dotslash_mid(e.path)}
        after_mid == db.entries \ mid
        lead == {e \in after_mid : like_dotslash_lead(e.path)}
        after_lead == after_mid \ lead
        dots == {e \in after_lead : e.name = <<DOT>>}
        total_after == Cardinality(cleanup_dotslash_duplicates(db).entries)
    IN [dotslash_mid_removed |-> Cardinality(mid),
        dotslash_lead_removed |-> Cardinality(lead),
        dot_entries_removed |-> Cardinality(dots),
        sync_meta_removed |-> Cardinality(meta \ cleanup_sync_meta(meta)),
        total_before |-> Cardinality(db.entries),
        total_after |-> total_after,
        total_removed |-> Cardinality(db.entries) - total_after]

MaxStored == 2

\* './f', 'a/./f', the directory 'a/./' named '.', the file 'a/.' named '.',
\* the clean 'a/f' and '.f', and 'a/f/.' under the name 'f/.'
LegacyRows ==
    {LegacyRow(<<"f">>, FALSE, <<DOT, SLASH>>, <<DOT, SLASH, "f">>),
     LegacyRow(<<"f">>, FALSE, <<"a", SLASH, DOT, SLASH>>, <<"a", SLASH, DOT, SLASH, "f">>),
     LegacyRow(<<DOT>>, TRUE, <<"a", SLASH>>, <<"a", SLASH, DOT, SLASH>>),
     LegacyRow(<<DOT>>, FALSE, <<"a", SLASH>>, <<"a", SLASH, DOT>>),
     LegacyRow(<<"f">>, FALSE, <<"a", SLASH>>, <<"a", SLASH, "f">>),
     LegacyRow(<<DOT, "f">>, FALSE, <<>>, <<DOT, "f">>),
     LegacyRow(<<"f", SLASH, DOT>>, FALSE, <<"a", SLASH>>, <<"a", SLASH, "f", SLASH, DOT>>)}

LegacyBatches == UNION {[1..n -> LegacyRows] : n \in 0..MaxStored}

LegacyMetaPaths ==
    {<<>>, <<DOT, SLASH>>, <<"a", SLASH>>, <<"a", SLASH, DOT, SLASH>>, <<"a", SLASH, DOT>>}

\* sync_meta with a row for each of these paths
meta_of(paths) == {[path |-> path, entry_count |-> 0, content_hash |-> <<>>] : path \in paths}

InitCleanup ==
    /\ remote \in {r \in Remotes : \A d \in RemoteDirs : Len(r[d]) = 1}
    /\ status = "idle"
    /\ InitCrawler
    /\ changes = {}
    /\ InitBuild
    /\ InitSync
    /\ \E batch \in LegacyBatches :
          LET db == executemany(DbFile({}, {}, {}, 0), batch).db
          IN /\ entries = db.entries
             /\ row_ids = db.row_ids
             /\ fts_index = db.fts
             /\ seq = db.seq
    /\ sync_meta \in {meta_of(paths) : paths \in SUBSET LegacyMetaPaths}
    /\ db_last = <<>>
    /\ db_batch = <<>>
    /\ db_pre = NoCall
    /\ db_raised = FALSE
    /\ db_call = NoDbCall
    /\ cl_pre = <<>>
    /\ cl_out = <<>>
    /\ cl_pc = 0
    /\ InitHash /\ InitNorm /\ InitSearch /\ InitMig /\ InitDate /\ InitSchema

\* a call cleanup_dotslash_duplicates() at startup, from its first statement to
\* its commit: no other connection is open then, and nothing commits between
\* the call and the one made directly after it
CallCleanup ==
    /\ cl_pc < 2
    /\ StoreBecomes(cleanup_dotslash_duplicates(StoredDb))
    /\ sync_meta' = cleanup_sync_meta(sync_meta)
    /\ cl_pre' = [entries |-> entries, sync_meta |-> sync_meta]
    /\ cl_out' = cleanup_counts(StoredDb, sync_meta)
    /\ cl_pc' = cl_pc + 1
    /\ UNCHANGED <<remote, status, crawlerVars, historyVars, changes, buildVars, syncVars,
                   db_last, db_batch, db_pre, db_raised, db_call,
                   hashVars, normVars, searchVars, migVars, dateVars, schemaVars>>

NextCleanup == CallCleanup

SpecCleanup == InitCleanup /\ [][NextCleanup]_vars

\* a segment '.' that is followed by a slash: at the start or inside the path
dot_segment_before_slash(path) ==
    \E i \in 1..(Len(split(path)) - 1) : split(path)[i] = <<DOT>>

\* C21: after a call of cleanup_dotslash_duplicates no row of entries has a
\* leading or embedded '.' segment in its path or the name '.', and no row of
\* sync_meta has a leading or embedded '.' segment in its path.
C21_CleanupLeavesNoDotPaths ==
    cl_pc >= 1 =>
        /\ \A e \in entries : ~dot_segment_before_slash(e.path) /\ e.name # <<DOT>>
        /\ \A m \in sync_meta : ~dot_segment_before_slash(m.path)

\* C21 witness: a first call found a row with an embedded './', a row named
\* '.' and a sync_meta row with an embedded './', and kept a clean row.
C21_Witness ==
    /\ cl_pc = 1
    /\ cl_out.dotslash_mid_removed = 1
    /\ cl_out.dot_entries_removed = 1
    /\ cl_out.sync_meta_removed >= 1
    /\ \E m \in cl_pre.sync_meta : like_dotslash_mid(m.path)
    /\ Cardinality(sync_meta) >= 1

\* C22: a second call made directly after a first returns zero for every
\* removal count and leaves entries and sync_meta as the first call left them.
C22_SecondCleanupRemovesNothing ==
    cl_pc = 2 =>
        /\ cl_out.total_removed = 0
        /\ cl_out.dotslash_mid_removed = 0
        /\ cl_out.dotslash_lead_removed = 0
        /\ cl_out.dot_entries_removed = 0
        /\ cl_out.sync_meta_removed = 0
        /\ entries = cl_pre.entries
        /\ sync_meta = cl_pre.sync_meta

\* C22 witness: the second call has returned on a file from which the first
\* call had removed rows and that still holds some.
C22_Witness ==
    /\ cl_pc = 2
    /\ cl_out.total_before >= 1
    /\ seq = 2
    /\ Cardinality(entries) < seq
    /\ sync_meta # {}

(***************************************************************************)
(* normalize_myrient_date and Database._normalize_date_value: the two      *)
(* patterns, strptime and strftime on strings                              *)
(***************************************************************************)
DECIMAL == <<"0", "1", "2", "3", "4", "5", "6", "7", "8", "9">>

all_digits(s) == \A i \in 1..Len(s) : \E d \in 1..Len(DECIMAL) : DECIMAL[d] = s[i]

all_letters(s) == \A i \in 1..Len(s) : \E d \in 1..Len(LOWERCASE) : LOWERCASE[d] = lower_char(s[i])

\* int() of a string of digits
RECURSIVE to_int(_)
to_int(s) ==
    IF s = <<>> THEN 0
    ELSE 10 * to_int(SubSeq(s, 1, Len(s) - 1))
            + (CHOOSE d \in 1..Len(DECIMAL) : DECIMAL[d] = s[Len(s)]) - 1

\* \d{2}:\d{2}
time_shape(t) ==
    Len(t) = 5 /\ all_digits(SubSeq(t, 1, 2)) /\ t[3] = ":" /\ all_digits(SubSeq(t, 4, 5))

\* \s+ between position from and the five characters of the time
blank_before_time(s, from) ==
    /\ from <= Len(s) - 5
    /\ \A i \in from..(Len(s) - 5) : s[i] = SPACE

\* ^(\d{4}-\d{2}-\d{2})\s+(\d{2}:\d{2})$
match_iso_space(s) ==
    /\ Len(s) >= 16
    /\ all_digits(SubSeq(s, 1, 4)) /\ s[5] = "-"
    /\ all_digits(SubSeq(s, 6, 7)) /\ s[8] = "-"
    /\ all_digits(SubSeq(s, 9, 10))
    /\ blank_before_time(s, 11)
    /\ time_shape(SubSeq(s, Len(s) - 4, Len(s)))

\* the number of digits of the day when s matches
\* ^(\d{1,2})-([A-Za-z]{3})-(\d{4})\s+(\d{2}:\d{2})$, 0 when it does not
match_dd_mon_yyyy(s) ==
    LET fits(k) ==
            /\ Len(s) >= k + 15
            /\ all_digits(SubSeq(s, 1, k)) /\ s[k + 1] = "-"
            /\ all_letters(SubSeq(s, k + 2, k + 4)) /\ s[k + 5] = "-"
            /\ all_digits(SubSeq(s, k + 6, k + 9))
            /\ blank_before_time(s, k + 10)
            /\ time_shape(SubSeq(s, Len(s) - 4, Len(s)))
    IN IF fits(1) THEN 1 ELSE IF fits(2) THEN 2 ELSE 0

\* %b in the C locale, case folded
MONTHS ==
    <<<<"j", "a", "n">>, <<"f", "e", "b">>, <<"m", "a", "r">>, <<"a", "p", "r">>,
      <<"m", "a", "y">>, <<"j", "u", "n">>, <<"j", "u", "l">>, <<"a", "u", "g">>,
      <<"s", "e", "p">>, <<"o", "c", "t">>, <<"n", "o", "v">>, <<"d", "e", "c">>>>

month_number(mon) ==
    IF \E m \in 1..Len(MONTHS) : MONTHS[m] = lower(mon)
    THEN CHOOSE m \in 1..Len(MONTHS) : MONTHS[m] = lower(mon)
    ELSE 0

days_in_month(m, y) ==
    IF m = 2
    THEN IF (y % 4 = 0 /\ y % 100 # 0) \/ y % 400 = 0 THEN 29 ELSE 28
    ELSE IF m \in {4, 6, 9, 11} THEN 30 ELSE 31

\* datetime.strptime(raw, "%d-%b-%Y %H:%M") returns a date
strptime_accepts(day, mon, year, time) ==
    /\ month_number(mon) # 0
    /\ to_int(year) >= 1
    /\ to_int(day) >= 1
    /\ to_int(day) <= days_in_month(month_number(mon), to_int(year))
    /\ to_int(SubSeq(time, 1, 2)) <= 23
    /\ to_int(SubSeq(time, 4, 5)) <= 59

\* two digits of a number below 100
two_digits(n) == <<DECIMAL[(n \div 10) + 1], DECIMAL[(n % 10) + 1]>>

\* %Y of strftime: four digits where the C library pads the year, the digits
\* without leading zeros where it does not (glibc)
RECURSIVE year_digits(_, _)
year_digits(year, pads) ==
    IF pads \/ Len(year) <= 1 \/ year[1] # "0" THEN year
    ELSE year_digits(Tail(year), pads)

\* mutant of normalize_stripped: the second pattern is not converted
normalize_first_pattern_only(raw, pads) ==
    IF contains(raw, <<"T">>) THEN raw
    ELSE IF match_iso_space(raw)
    THEN SubSeq(raw, 1, 10) \o <<"T">> \o SubSeq(raw, Len(raw) - 4, Len(raw)) \o <<":", "0", "0">>
    ELSE raw

\* what both normalizers do with the stripped string
normalize_stripped(raw, pads) ==
    LET k == match_dd_mon_yyyy(raw)
        day == SubSeq(raw, 1, k)
        mon == SubSeq(raw, k + 2, k + 4)
        year == SubSeq(raw, k + 6, k + 9)
        time == SubSeq(raw, Len(raw) - 4, Len(raw))
    IN IF contains(raw, <<"T">>) THEN raw
       ELSE IF match_iso_space(raw)
       THEN SubSeq(raw, 1, 10) \o <<"T">> \o SubSeq(raw, Len(raw) - 4, Len(raw))
                \o <<":", "0", "0">>
       ELSE IF k # 0 /\ strptime_accepts(day, mon, year, time)
       THEN year_digits(year, pads) \o <<"-">> \o two_digits(month_number(mon)) \o <<"-">>
                \o two_digits(to_int(day)) \o <<"T">> \o time \o <<":", "0", "0">>
       ELSE raw

\* parser.normalize_myrient_date
normalize_myrient_date(raw, pads) ==
    IF raw = None \/ raw = <<>> \/ strip_ws(raw) = <<>> THEN None
    ELSE normalize_stripped(strip_ws(raw), pads)

\* Database._normalize_date_value
_normalize_date_value(raw, pads) ==
    IF raw = None \/ raw = <<>> THEN None
    ELSE normalize_stripped(strip_ws(raw), pads)

\* the parts the date strings of the specification are put together from
IsoYears == {<<"2", "0", "2", "4">>, <<"0", "9", "9", "9">>}
IsoMonthDays == {<<"-", "0", "1", "-", "1", "5">>, <<"-", "1", "3", "-", "4", "5">>}
Gaps == {<<" ">>, <<" ", " ">>}
Times == {<<"1", "0", ":", "5", "7">>, <<"2", "4", ":", "5", "7">>}
Days == {<<"8">>, <<"1", "8">>, <<"2", "9">>, <<"3", "1">>, <<"0">>}
MonthNames ==
    {<<"F", "e", "b">>, <<"f", "e", "b">>, <<"O", "c", "t">>, <<"O", "C", "T">>, <<"F", "o", "o">>}
Years == {<<"2", "0", "2", "5">>, <<"2", "0", "2", "4">>, <<"0", "9", "9", "9">>, <<"0", "0", "0", "0">>}
OtherDates ==
    {<<>>, <<"2", "0", "2", "4", "-", "0", "1", "-", "1", "5", "T", "1", "0", ":", "3", "0", ":", "0", "0">>, <<"f", "o", "o">>, <<"T">>, <<"2", "0", "2", "4", "-", "0", "1", "-", "1", "5", " ", "1", "0", ":", "3", "0", ":", "0", "0">>, <<"1", "8", "-", "F", "e", "b", "-", "2", "0", "2", "5", " ", "1", ":", "5", "7">>}

DateBodies ==
    {y \o md \o g \o tm : y \in IsoYears, md \in IsoMonthDays, g \in Gaps, tm \in Times}
        \cup {d \o <<"-">> \o m \o <<"-">> \o y \o <<SPACE>> \o tm :
                 d \in Days, m \in MonthNames, y \in Years, tm \in Times}
        \cup OtherDates

\* a date cell: a body, bare or with whitespace around it, or no cell
DateInputs ==
    {None} \cup {lead \o body \o trail :
                    lead \in {<<>>, <<SPACE>>}, body \in DateBodies, trail \in {<<>>, <<SPACE>>}}

InitDateCall ==
    /\ InitQuiet
    /\ dt_in \in DateInputs
    /\ dt_out = <<>>
    /\ dt_pc = "input"
    /\ InitHash /\ InitNorm /\ InitSearch /\ InitClean /\ InitMig /\ InitSchema

\* normalize_myrient_date(dt_in), normalize_myrient_date of what it
\* returned, and Database._normalize_date_value(dt_in), under either way the
\* C library writes %Y
CallNormalizeDate ==
    /\ dt_pc = "input"
    /\ \E pads \in BOOLEAN :
          LET first == normalize_myrient_date(dt_in, pads)
          IN dt_out' = [first |-> first,
                        second |-> IF first = None THEN None
                                   ELSE normalize_myrient_date(first, pads),
                        stored |-> _normalize_date_value(dt_in, pads)]
    /\ dt_pc' = "done"
    /\ UNCHANGED <<dt_in, hashVars, normVars, searchVars, cleanVars, migVars,
                   schemaVars>>
    /\ QuietFrame

NextDate == CallNormalizeDate

SpecDate == InitDateCall /\ [][NextDate]_vars

\* 'YYYY-MM-DD HH:MM'
shape_ymd_hm(x) ==
    /\ x # None /\ Len(x) = 16
    /\ all_digits(SubSeq(x, 1, 4)) /\ x[5] = "-" /\ all_digits(SubSeq(x, 6, 7))
    /\ x[8] = "-" /\ all_digits(SubSeq(x, 9, 10)) /\ x[11] = SPACE
    /\ all_digits(SubSeq(x, 12, 13)) /\ x[14] = ":" /\ all_digits(SubSeq(x, 15, 16))

\* 'D-Mon-YYYY HH:MM' with a day of one or two digits
shape_d_mon_y_hm(x) ==
    /\ x # None
    /\ \E k \in 1..2 :
          /\ Len(x) = k + 15
          /\ all_digits(SubSeq(x, 1, k)) /\ x[k + 1] = "-"
          /\ all_letters(SubSeq(x, k + 2, k + 4)) /\ x[k + 5] = "-"
          /\ all_digits(SubSeq(x, k + 6, k + 9)) /\ x[k + 10] = SPACE
          /\ all_digits(SubSeq(x, k + 11, k + 12)) /\ x[k + 13] = ":"
          /\ all_digits(SubSeq(x, k + 14, k + 15))

\* 'YYYY-MM-DDTHH:MM:00'
shape_iso(x) ==
    /\ x # None /\ Len(x) = 19
    /\ all_digits(SubSeq(x, 1, 4)) /\ x[5] = "-" /\ all_digits(SubSeq(x, 6, 7))
    /\ x[8] = "-" /\ all_digits(SubSeq(x, 9, 10)) /\ x[11] = "T"
    /\ all_digits(SubSeq(x, 12, 13)) /\ x[14] = ":" /\ all_digits(SubSeq(x, 15, 16))
    /\ SubSeq(x, 17, 19) = <<":", "0", "0">>

\* 'YYYY-MM-DD', one or more blanks, 'HH:MM'
shape_ymd_gap_hm(x) ==
    /\ x # None /\ Len(x) >= 16
    /\ shape_ymd_hm(SubSeq(x, 1, 10) \o <<SPACE>> \o SubSeq(x, Len(x) - 4, Len(x)))
    /\ \A i \in 11..(Len(x) - 5) : x[i] = SPACE

blank(x) == x = None \/ strip_ws(x) = <<>>

\* a 'D-Mon-YYYY HH:MM' string that names a day of the calendar and a time of
\* the day, in a year of four significant digits
real_date(x) ==
    LET k == Len(x) - 15
    IN /\ shape_d_mon_y_hm(x)
       /\ strptime_accepts(SubSeq(x, 1, k), SubSeq(x, k + 2, k + 4), SubSeq(x, k + 6, k + 9),
                           SubSeq(x, k + 11, k + 15))
       /\ to_int(SubSeq(x, k + 6, k + 9)) >= 1000

holds_T(x) == x # None /\ \E i \in 1..Len(x) : x[i] = "T"

MaxCalls == 3

\* ALTER TABLE sync_meta ADD COLUMN: the error of SQLite, or none
alter_add_column(columns, column) ==
    IF column \in columns THEN "duplicate column name: " \o column ELSE "ok"

\* "duplicate column" in str(e).lower()
is_duplicate_column(message) == message = "duplicate column name: content_hash"

\* every row of the table gets the new column, holding NULL
with_column(rows, columns, column) ==
    {[c \in columns \cup {column} |-> IF c \in columns THEN r[c] ELSE None] : r \in rows}

\* connect() around the statement: a commit, or a rollback and the
\* exception again when one escapes the block
migrate_add_content_hash(db) ==
    LET e == alter_add_column(db.columns, "content_hash")
    IN IF e = "ok"
       THEN [db |-> [db EXCEPT !.columns = @ \cup {"content_hash"},
                               !.sync_meta = with_column(@, db.columns, "content_hash")],
             raised |-> FALSE, returned |-> None]
       ELSE [db |-> db, raised |-> ~is_duplicate_column(e), returned |-> None]

\* CREATE INDEX IF NOT EXISTS idx_entries_last_modified
migrate_add_last_modified_index(db) ==
    [db |-> [db EXCEPT !.indexes = @ \cup {"idx_entries_last_modified"}],
     raised |-> FALSE, returned |-> None]

\* last_modified IS NOT NULL AND last_modified != '' AND last_modified NOT
\* LIKE '%T%', where LIKE takes no notice of the case of ASCII letters
selected_for_normalizing(v) ==
    /\ v # None
    /\ v # <<>>
    /\ ~contains(lower(v), <<"t">>)

\* an UPDATE that rewrites every selected row
updates_unfiltered(dates, pads) ==
    {i \in 1..Len(dates) : selected_for_normalizing(dates[i])}

\* the ids of the (normalized, id) pairs of the UPDATE
updates(dates, pads) ==
    {i \in 1..Len(dates) :
        /\ selected_for_normalizing(dates[i])
        /\ _normalize_date_value(dates[i], pads) \notin {None, <<>>}
        /\ _normalize_date_value(dates[i], pads) # dates[i]}

migrate_normalize_dates(db, pads) ==
    LET ids == updates(db.dates, pads)
    IN [db |-> [db EXCEPT !.dates = [i \in 1..Len(db.dates) |->
                                        IF i \in ids
                                        THEN _normalize_date_value(db.dates[i], pads)
                                        ELSE db.dates[i]]],
        raised |-> FALSE,
        returned |-> Cardinality(ids)]

\* last_modified values that crawlers of any version have stored
StoredDates ==
    {None, <<>>, <<SPACE>>,
     <<"2", "0", "2", "4", "-", "0", "1", "-", "1", "5", " ", "1", "0", ":", "5", "7">>,
     <<"1", "8", "-", "F", "e", "b", "-", "2", "0", "2", "5", " ", "1", "0", ":", "5", "7">>,
     <<"1", "8", "-", "O", "c", "t", "-", "2", "0", "2", "5", " ", "1", "0", ":", "5", "7">>,
     <<"2", "0", "2", "4", "-", "0", "1", "-", "1", "5", "T", "1", "0", ":", "5", "7", ":", "0", "0">>,
     <<" ", "f", "o", "o", " ">>,
     <<"3", "1", "-", "F", "e", "b", "-", "2", "0", "2", "5", " ", "1", "0", ":", "5", "7">>,
     <<"1", "8", "-", "F", "e", "b", "-", "0", "9", "9", "9", " ", "1", "0", ":", "5", "7">>}

\* initialize() has run; each migration has run before or has not
InitMigrate ==
    /\ InitQuiet
    /\ \E d1 \in StoredDates, d2 \in StoredDates \cup {<<"no row">>},
          hashed \in BOOLEAN, indexed \in BOOLEAN :
          LET columns == base_columns \cup (IF hashed THEN {"content_hash"} ELSE {})
          IN mg_db = [columns |-> columns,
                      indexes |-> IF indexed THEN {"idx_entries_last_modified"} ELSE {},
                      dates |-> IF d2 = <<"no row">> THEN <<d1>> ELSE <<d1, d2>>,
                      sync_meta |-> {[c \in columns |->
                                         IF c = "path" THEN <<>>
                                         ELSE IF c = "entry_count" THEN 1 ELSE None]}]
    /\ mg_out = <<>>
    /\ mg_pc = 0
    /\ InitHash /\ InitNorm /\ InitSearch /\ InitClean /\ InitDate /\ InitSchema

Migrated(call, r) ==
    /\ mg_db' = r.db
    /\ mg_out' = [call |-> call, raised |-> r.raised, returned |-> r.returned,
                  before |-> mg_db,
                  ran |-> IF mg_out = <<>> THEN {} ELSE mg_out.ran \cup {mg_out.call},
                  last |-> IF mg_out = <<>> THEN "" ELSE mg_out.call]
    /\ mg_pc' = mg_pc + 1
    /\ UNCHANGED <<hashVars, normVars, searchVars, cleanVars, dateVars, schemaVars>>
    /\ QuietFrame

CallMigrateAddContentHash ==
    /\ mg_pc < MaxCalls
    /\ Migrated("migrate_add_content_hash", migrate_add_content_hash(mg_db))

CallMigrateAddLastModifiedIndex ==
    /\ mg_pc < MaxCalls
    /\ Migrated("migrate_add_last_modified_index", migrate_add_last_modified_index(mg_db))

CallMigrateNormalizeDates ==
    /\ mg_pc < MaxCalls
    /\ \E pads \in BOOLEAN :
          Migrated("migrate_normalize_dates", migrate_normalize_dates(mg_db, pads))

NextMigrate ==
    \/ CallMigrateAddContentHash
    \/ CallMigrateAddLastModifiedIndex
    \/ CallMigrateNormalizeDates

SpecMigrate == InitMigrate /\ [][NextMigrate]_vars

\* C23: no migration raises, in any order and on a fresh or a migrated
\* database; a migration that ran before in the history changes no row of
\* entries or sync_meta; migrate_normalize_dates directly after itself
\* returns 0.
C23_MigrationsRepeatable ==
    mg_out # <<>> =>
        /\ ~mg_out.raised
        /\ mg_out.call \in mg_out.ran =>
              /\ mg_db.dates = mg_out.before.dates
              /\ mg_db.sync_meta = mg_out.before.sync_meta
        /\ (mg_out.call = "migrate_normalize_dates" /\ mg_out.last = mg_out.call)
              => mg_out.returned = 0

\* C23 witness: migrate_normalize_dates ran directly after itself on a
\* database whose first run had rewritten a date, after the content_hash
\* migration had run on a file that already had the column.
C23_Witness ==
    /\ mg_pc = 3
    /\ mg_out.call = "migrate_normalize_dates"
    /\ mg_out.last = "migrate_normalize_dates"
    /\ mg_out.ran = {"migrate_add_content_hash", "migrate_normalize_dates"}
    /\ "content_hash" \in mg_out.before.columns
    /\ \E i \in 1..Len(mg_db.dates) : mg_db.dates[i] = <<"2", "0", "2", "5", "-", "0", "2", "-", "1", "8", "T", "1", "0", ":", "5", "7", ":", "0", "0">>

(***************************************************************************)
(* Orchestration: backend/main.py (startup, POST /api/sync, the scheduler) *)
(* and indexer/sync.py, with every run_sync_blocking call in a thread of   *)
(* its own, each with its own crawler, event loop and connections. The     *)
(* pages list at most one subdirectory each, so that the semaphore of a    *)
(* crawler never makes a visit wait.                                       *)
(***************************************************************************)
MaxThreads == 2

ThreadIds == 1..MaxThreads

\* a thread: where run_sync is, its arguments, and its crawler: the visits
\* created and not fetched yet (pending), the visit the event loop is in
\* (visit, <<>> for none) and _entry_buffer (buf)
FreeThread ==
    [pc |-> "free", full |-> FALSE, overlapped |-> FALSE, pending |-> {}, visit |-> <<>>,
     buf |-> <<>>]

\* a thread is executing run_sync past its status check
PastCheck(t) == thr[t].pc \in {"created", "crawling", "flushed"}

\* a thread is between its status='crawling' write and its terminal write
Crawling(t) == thr[t].pc \in {"crawling", "flushed"}

\* get_stats()["total_files"]
total_files(tbl) == Cardinality({e \in tbl : ~e.is_directory})

\* mutant of startup_status: the reset does not look at the stored status
startup_status_always_idle(st) == "idle"

\* startup: a status left at 'crawling' is reset to 'idle'
startup_status(st) == IF st = "crawling" THEN "idle" ELSE st

\* startup, on the tables: migrate_add_content_hash, then
\* cleanup_dotslash_duplicates (migrate_add_last_modified_index and
\* migrate_normalize_dates work on an index and on last_modified, which these
\* rows do not carry). No other connection is open during startup
startup_tables(tbl, meta, columns) ==
    LET migrated == migrate_add_content_hash([columns |-> columns, sync_meta |-> meta]).db
    IN [entries |-> cleanup_dotslash_duplicates(DbFile(tbl, {}, {}, 0)).entries,
        sync_meta |-> cleanup_sync_meta(migrated.sync_meta),
        columns |-> migrated.columns]

\* the root lists the directory 'a/' and a file, 'a/' lists a file
SyncRemote ==
    [d \in {pRoot, pA} |->
        IF d = pRoot THEN <<DirRow(<<"a">>), FileRow(<<"f">>, <<"1">>)>>
        ELSE <<FileRow(<<"g">>, <<"1">>)>>]

\* what a crawler without _normalize_path and without fingerprints has left:
\* the file './a/f', and sync_meta rows for '' and './a/'
LegacyEntries ==
    {LegacyRow(<<"f">>, FALSE, <<DOT, SLASH, "a", SLASH>>, <<DOT, SLASH, "a", SLASH, "f">>)}

\* the file 'a/b', which the archive no longer lists
StaleEntries == {build_entry(<<"b">>, <<"b">>, FALSE, <<"1">>, None, pA)}

LegacyMeta ==
    {[path |-> pRoot, entry_count |-> 1],
     [path |-> <<DOT, SLASH, "a", SLASH>>, entry_count |-> 1]}

\* the process is down; the file is as initialize() creates it, or as an
\* older version of the program has left it
InitOrchestration ==
    /\ remote = SyncRemote
    /\ \E legacy \in BOOLEAN, stale \in BOOLEAN :
          /\ entries = (IF legacy THEN LegacyEntries ELSE {})
                            \cup (IF stale THEN StaleEntries ELSE {})
          /\ sync_meta = IF legacy THEN LegacyMeta ELSE {}
    /\ status = "idle"
    /\ meta_columns = base_columns
    /\ InitCrawler
    /\ changes = {}
    /\ InitBuild
    /\ proc = "down"
    /\ thr = [t \in ThreadIds |-> FreeThread]
    /\ InitStore
    /\ InitHash /\ InitNorm /\ InitSearch /\ InitClean /\ InitMig /\ InitDate

SyncFrame == UNCHANGED <<remote, crawlerVars, historyVars, buildVars, storeVars, auxVars>>

\* the server process starts: stale status reset, migrations, cleanup, then
\* the scheduler is installed and, with no file stored, the initial full
\* crawl is started in a thread
Startup ==
    /\ proc = "down"
    /\ proc' = "up"
    /\ SetStatus(startup_status(status))
    /\ LET tables == startup_tables(entries, sync_meta, meta_columns)
       IN /\ entries' = tables.entries
          /\ sync_meta' = tables.sync_meta
          /\ meta_columns' = tables.columns
          /\ thr' = IF total_files(tables.entries) = 0
                    THEN [thr EXCEPT ![1] = [FreeThread EXCEPT !.pc = "spawned",
                                                               !.full = TRUE]]
                    ELSE thr
    /\ UNCHANGED <<remote, crawlerVars, historyVars, buildVars, storeVars, hashVars,
                   normVars, searchVars, cleanVars, migVars, dateVars>>

\* the process stops or is killed: its daemon threads end with it, the
\* database file stays as the last commit left it
Crash ==
    /\ proc = "up"
    /\ proc' = "down"
    /\ thr' = [t \in ThreadIds |-> FreeThread]
    /\ crashed' = IF status = "crawling" THEN [visits |-> visits] ELSE crashed
    /\ UNCHANGED <<dbVars, changes>>
    /\ UNCHANGED <<remote, crawlerVars, pre_entries, pre_meta, visits, meta_reads, passed,
                   buildVars, storeVars, auxVars>>

\* POST /api/sync: 409 when the status read is 'crawling', else a thread is
\* started
TriggerSync(t) ==
    /\ proc = "up"
    /\ thr[t].pc = "free"
    /\ status # "crawling"
    /\ \E full \in BOOLEAN :
          thr' = [thr EXCEPT ![t] = [FreeThread EXCEPT !.pc = "spawned", !.full = full]]
    /\ UNCHANGED <<dbVars, proc, changes>>
    /\ SyncFrame

\* the scheduler's cron job: run_sync_blocking(db, False) in a thread
ScheduledSync(t) ==
    /\ proc = "up"
    /\ thr[t].pc = "free"
    /\ thr' = [thr EXCEPT ![t] = [FreeThread EXCEPT !.pc = "spawned"]]
    /\ UNCHANGED <<dbVars, proc, changes>>
    /\ SyncFrame

\* run_sync: get_crawl_state; return when 'crawling', else build the crawler
RunSyncCheck(t) ==
    /\ proc = "up"
    /\ thr[t].pc = "spawned"
    /\ thr' = IF status = "crawling"
              THEN [thr EXCEPT ![t] = FreeThread]
              ELSE [u \in ThreadIds |->
                      IF u = t
                      THEN [thr[t] EXCEPT !.pc = "created",
                                          !.overlapped = \E v \in ThreadIds \ {t} : PastCheck(v)]
                      ELSE IF PastCheck(u) THEN [thr[u] EXCEPT !.overlapped = TRUE]
                      ELSE thr[u]]
    /\ UNCHANGED <<dbVars, proc, changes>>
    /\ SyncFrame

\* crawl(): update_crawl_state(status="crawling", ...), then the root
\* coroutine is created
SyncCrawlStart(t) ==
    /\ proc = "up"
    /\ thr[t].pc = "created"
    /\ SetStatus("crawling")
    /\ thr' = [thr EXCEPT ![t].pc = "crawling", ![t].pending = {pRoot}]
    /\ UNCHANGED <<entries, sync_meta, proc>>
    /\ SyncFrame

\* the thread's event loop is in a visit, at this point of it
InVisit(t, at) == thr[t].pc = "crawling" /\ thr[t].visit # <<>> /\ thr[t].visit.at = at

\* the threads after thread t has taken a step that wrote these records to
\* entries: a row another thread has selected for its DELETE and that is
\* written again has a new id, which that DELETE does not name
Written(t, after, records) ==
    [u \in ThreadIds |->
        IF u = t THEN after
        ELSE IF thr[u].visit = <<>> THEN thr[u]
        ELSE [thr[u] EXCEPT !.visit.selected =
                 {e \in @ : \A i \in 1..Len(records) : records[i].path # e.path}]]

\* a pending visit gets its page (status 200) and the event loop goes on in it
SyncFetchOk(t) ==
    /\ proc = "up"
    /\ thr[t].pc = "crawling"
    /\ thr[t].visit = <<>>
    /\ \E path \in thr[t].pending \cap DOMAIN remote :
          thr' = [thr EXCEPT ![t].pending = @ \ {path},
                             ![t].visit = [path |-> path, raw |-> remote[path],
                                           at |-> "parsed", skip |-> FALSE,
                                           selected |-> {}]]
    /\ UNCHANGED <<dbVars, proc, changes>>
    /\ SyncFrame

\* a pending visit gets another status, a timeout or a transport error: it
\* returns
SyncFetchFail(t) ==
    /\ proc = "up"
    /\ thr[t].pc = "crawling"
    /\ thr[t].visit = <<>>
    /\ \E path \in thr[t].pending : thr' = [thr EXCEPT ![t].pending = @ \ {path}]
    /\ UNCHANGED <<dbVars, proc, changes>>
    /\ SyncFrame

\* the visit from the parsed listing to the end of the row loop:
\* get_sync_meta in an incremental run, the skip decision
SyncDecide(t) ==
    /\ proc = "up"
    /\ InVisit(t, "parsed")
    /\ LET skip == skip_db_writes(~thr[t].full, sync_meta, thr[t].visit.path,
                                  thr[t].visit.raw)
       IN thr' = [thr EXCEPT ![t].visit.skip = skip, ![t].visit.at = after_loop(skip)]
    /\ UNCHANGED <<dbVars, proc, changes>>
    /\ SyncFrame

\* the visit under _buffer_lock: extend the buffer, write one batch when it
\* is full
SyncBufferEntries(t) ==
    /\ proc = "up"
    /\ InVisit(t, "buffer")
    /\ LET extended == thr[t].buf \o entries_to_insert(thr[t].visit.raw, thr[t].visit.path)
       IN /\ entries' = insert_entries_batch(entries, flush_batch(extended))
          /\ thr' = Written(t, [thr[t] EXCEPT !.buf = flush_rest(extended),
                                              !.visit.at = "meta"],
                            flush_batch(extended))
    /\ UNCHANGED <<sync_meta, status, proc, changes>>
    /\ SyncFrame

\* the visit's upsert_sync_meta; when it raises, the visit ends, and from the
\* root coroutine the exception reaches run_sync, which writes status='error'
SyncUpsertMeta(t) ==
    /\ proc = "up"
    /\ InVisit(t, "meta")
    /\ LET visit == thr[t].visit
           res == upsert_sync_meta(sync_meta, meta_columns, visit.path, Len(visit.raw),
                                   compute_content_hash(visit.raw))
       IN /\ sync_meta' = res.meta
          /\ thr' = [thr EXCEPT ![t] =
                        IF ~res.raised THEN [@ EXCEPT !.visit.at = after_meta(~thr[t].full)]
                        ELSE IF visit.path = pRoot THEN FreeThread
                        ELSE [@ EXCEPT !.visit = <<>>]]
          /\ IF res.raised /\ visit.path = pRoot THEN SyncFailed ELSE SetStatus(status)
    /\ UNCHANGED <<entries, proc>>
    /\ SyncFrame

\* the visit's remove_missing_entries up to its list to_delete
SyncRemoveSelect(t) ==
    /\ proc = "up"
    /\ InVisit(t, "remove")
    /\ LET rows == to_delete(entries, thr[t].visit.path, current_names(thr[t].visit.raw))
       IN thr' = [thr EXCEPT ![t].visit.selected = rows,
                             ![t].visit.at = IF rows = {} THEN "recurse" ELSE "delete"]
    /\ UNCHANGED <<dbVars, proc, changes>>
    /\ SyncFrame

\* the DELETE of remove_missing_entries and its commit
SyncRemoveDelete(t) ==
    /\ proc = "up"
    /\ InVisit(t, "delete")
    /\ entries' = delete_selected(entries, thr[t].visit.selected)
    /\ thr' = [thr EXCEPT ![t].visit.at = "recurse", ![t].visit.selected = {}]
    /\ UNCHANGED <<sync_meta, status, proc, changes>>
    /\ SyncFrame

\* the visit creates a coroutine for each subdirectory and suspends in
\* gather, or returns
SyncRecurse(t) ==
    /\ proc = "up"
    /\ InVisit(t, "recurse")
    /\ LET subs == children_of(thr[t].visit.skip, thr[t].visit.raw, thr[t].visit.path)
       IN thr' = [thr EXCEPT ![t].pending = @ \cup {subs[i] : i \in 1..Len(subs)},
                             ![t].visit = <<>>]
    /\ UNCHANGED <<dbVars, proc, changes>>
    /\ SyncFrame

\* crawl() after the traversal (every visit has returned): _flush_buffer
SyncFlushBuffer(t) ==
    /\ proc = "up"
    /\ thr[t].pc = "crawling"
    /\ thr[t].visit = <<>>
    /\ thr[t].pending = {}
    /\ entries' = flushed(entries, thr[t].buf)
    /\ thr' = Written(t, [thr[t] EXCEPT !.buf = <<>>, !.pc = "flushed"], thr[t].buf)
    /\ UNCHANGED <<sync_meta, status, proc, changes>>
    /\ SyncFrame

\* crawl(): the final update_crawl_state(status="idle", ...); the thread ends
SyncCrawlEnd(t) ==
    /\ proc = "up"
    /\ thr[t].pc = "flushed"
    /\ SetStatus("idle")
    /\ thr' = [thr EXCEPT ![t] = FreeThread]
    /\ UNCHANGED <<entries, sync_meta, proc>>
    /\ SyncFrame

\* an exception leaves crawl() (a storage error at a status write, in the
\* root visit or in the flush, rolled back by connect()): run_sync writes
\* status='error', or fails to, and the exception ends the thread
SyncCrawlRaise(t) ==
    /\ proc = "up"
    /\ PastCheck(t)
    /\ thr[t].visit # <<>> => thr[t].visit.path = pRoot
    /\ SyncFailed
    /\ thr' = [thr EXCEPT ![t] = FreeThread]
    /\ UNCHANGED <<entries, sync_meta, proc>>
    /\ SyncFrame

\* a storage call of a visit below the root raises: gather hands the
\* exception to the parent as a result; a batch cut off the buffer is lost
SyncVisitRaise(t) ==
    /\ proc = "up"
    /\ thr[t].pc = "crawling"
    /\ thr[t].visit # <<>>
    /\ thr[t].visit.path # pRoot
    /\ \/ thr[t].visit.at \in {"meta", "remove", "delete"}
       \/ thr[t].visit.at = "parsed" /\ ~thr[t].full
       \/ /\ thr[t].visit.at = "buffer"
          /\ Len(thr[t].buf \o entries_to_insert(thr[t].visit.raw, thr[t].visit.path))
                >= BATCH_SIZE
    /\ thr' = [thr EXCEPT
                 ![t].visit = <<>>,
                 ![t].buf = IF thr[t].visit.at = "buffer"
                            THEN flush_rest(@ \o entries_to_insert(thr[t].visit.raw,
                                                                   thr[t].visit.path))
                            ELSE @]
    /\ UNCHANGED <<dbVars, proc, changes>>
    /\ SyncFrame

NextSync ==
    \/ Startup
    \/ Crash
    \/ \E t \in ThreadIds : TriggerSync(t)
    \/ \E t \in ThreadIds : ScheduledSync(t)
    \/ \E t \in ThreadIds : RunSyncCheck(t)
    \/ \E t \in ThreadIds : SyncCrawlStart(t)
    \/ \E t \in ThreadIds : SyncFetchOk(t)
    \/ \E t \in ThreadIds : SyncFetchFail(t)
    \/ \E t \in ThreadIds : SyncDecide(t)
    \/ \E t \in ThreadIds : SyncBufferEntries(t)
    \/ \E t \in ThreadIds : SyncUpsertMeta(t)
    \/ \E t \in ThreadIds : SyncRemoveSelect(t)
    \/ \E t \in ThreadIds : SyncRemoveDelete(t)
    \/ \E t \in ThreadIds : SyncRecurse(t)
    \/ \E t \in ThreadIds : SyncFlushBuffer(t)
    \/ \E t \in ThreadIds : SyncCrawlEnd(t)
    \/ \E t \in ThreadIds : SyncCrawlRaise(t)
    \/ \E t \in ThreadIds : SyncVisitRaise(t)

SpecSync == InitOrchestration /\ [][NextSync]_vars

\* C8: at most one run is between its status='crawling' write and its
\* terminal status write.
C8_AtMostOneRun == Cardinality({t \in ThreadIds : Crawling(t)}) <= 1

\* C9 (as claimed): every change of crawl_state.status is idle->crawling,
\* crawling->idle or crawling->error.
C9_OnlyClaimedTransitions ==
    [][status' # status =>
          \/ status = "idle" /\ status' = "crawling"
          \/ status = "crawling" /\ status' \in {"idle", "error"}]_vars

\* C9 (amended): status becomes 'crawling' only by the start write of a run,
\* from idle or from error; 'error' only by the handler of a failed run;
\* 'idle' only from 'crawling', by the startup reset or the end of a run, or
\* from 'error' by the end of a run that overlapped another run.
C9_StatusChanges ==
    [][status' # status =>
          \/ /\ status' = "crawling"
             /\ \E t \in ThreadIds : thr[t].pc = "created" /\ thr'[t].pc = "crawling"
          \/ /\ status' = "error"
             /\ \E t \in ThreadIds : PastCheck(t) /\ thr'[t].pc = "free"
          \/ /\ status' = "idle" /\ status = "crawling"
             /\ \/ proc = "down" /\ proc' = "up"
                \/ \E t \in ThreadIds : thr[t].pc = "flushed" /\ thr'[t].pc = "free"
          \/ /\ status' = "idle" /\ status = "error"
             /\ \E t \in ThreadIds :
                   thr[t].pc = "flushed" /\ thr[t].overlapped /\ thr'[t].pc = "free"]_vars

\* C9 witness: a run has failed, a run has started from 'error', a status of
\* 'crawling' has gone back to 'idle', and no run is executing.
C9_Witness ==
    /\ <<"error", "crawling">> \in changes
    /\ <<"crawling", "idle">> \in changes
    /\ <<"crawling", "error">> \in changes
    /\ proc = "up" /\ status = "idle"
    /\ \A t \in ThreadIds : thr[t].pc = "free"

(***************************************************************************)
(* The order of the writes of a visit, and a process that dies in a run    *)
(***************************************************************************)
\* the visit of task t computed a fingerprint of its listing and sync_meta
\* holds it
FingerprintPersisted(t) ==
    /\ ~tasks[t].skip
    /\ tasks[t].pc \in {"remove", "delete", "recurse", "waiting", "done", "raised"}
    /\ \E v \in visits : v.path = tasks[t].path
    /\ \E m \in get_sync_meta(sync_meta, tasks[t].path) :
          m.content_hash = compute_content_hash(tasks[t].raw)

\* C25: at every point of a run, when sync_meta holds the fingerprint the
\* run computed for a directory, every record built from that listing is a
\* row of entries.
C25_FingerprintAfterRecords ==
    \A t \in TaskIds :
        FingerprintPersisted(t) =>
            LET records == entries_to_insert(tasks[t].raw, tasks[t].path)
            IN \A i \in 1..Len(records) : Stored(records[i].path)

\* the process is killed, once during a run or at any time before one: the
\* threads, the coroutines, the buffer and the counters go with it, the
\* database file stays as the last commit left it
ProcessDies ==
    /\ \/ phase \in {"created", "traverse", "flushed"} /\ crashed = <<>>
       \/ phase = "idle"
    /\ crashed' = IF phase = "idle" THEN crashed ELSE [visits |-> visits]
    /\ phase' = "down"
    /\ buffer' = <<>>
    /\ tasks' = <<>>
    /\ stats' = ZeroStats
    /\ permits' = CRAWL_CONCURRENCY
    /\ running' = 0
    /\ thr' = <<>>
    /\ UNCHANGED <<remote, dbVars, incremental, pre_entries, pre_meta, visits, meta_reads,
                   passed, changes, proc>>
    /\ UNCHANGED <<buildVars, storeVars, auxVars>>

\* the thread startup() starts for run_sync_blocking(db, True), before the
\* first statement of run_sync
StartupThread == <<[FreeThread EXCEPT !.pc = "spawned", !.full = TRUE]>>

\* startup of a process, the first one or the one after the death: a status
\* left at 'crawling' becomes 'idle', then the migrations and the cleanup;
\* with no file stored the thread of the initial crawl is started, and
\* startup() returns to the event loop
Restart ==
    /\ phase = "down"
    /\ phase' = "idle"
    /\ SetStatus(startup_status(status))
    /\ LET tables == startup_tables(entries, sync_meta, meta_columns)
       IN /\ entries' = tables.entries
          /\ sync_meta' = tables.sync_meta
          /\ meta_columns' = tables.columns
          /\ thr' = IF total_files(tables.entries) = 0 THEN StartupThread ELSE <<>>
    /\ UNCHANGED <<remote, incremental, buffer, stats, tasks, permits, running,
                   historyVars, proc, buildVars, storeVars, hashVars, normVars,
                   searchVars, cleanVars, migVars, dateVars>>

\* run_sync in the thread startup() started: it returns when a run that was
\* started in between (POST /api/sync, the scheduler) is recorded as
\* crawling, else it builds the crawler of the full run. One crawler exists
\* at a time here; the overlap of two runs is the orchestration
\* specification's
StartupRunSync ==
    /\ thr = StartupThread
    /\ thr' = <<>>
    /\ IF status = "crawling"
       THEN UNCHANGED <<crawlerVars, pre_entries, pre_meta, visits, meta_reads, passed>>
       ELSE /\ phase \in {"idle", "ended"}
            /\ phase' = "created"
            /\ incremental' = ~thr[1].full
            /\ buffer' = <<>>
            /\ stats' = ZeroStats
            /\ tasks' = <<>>
            /\ permits' = CRAWL_CONCURRENCY
            /\ running' = 0
            /\ pre_entries' = entries
            /\ pre_meta' = sync_meta
            /\ visits' = {}
            /\ meta_reads' = {}
            /\ passed' = EmptyBag
    /\ UNCHANGED <<remote, dbVars, crashed, changes, proc>>
    /\ UNCHANGED <<buildVars, storeVars, auxVars>>

\* the file 'g' of an earlier run, which the root page no longer lists
CrashStale == build_entry(<<"g">>, <<"g">>, FALSE, <<"1">>, None, pRoot)

\* the process has not started yet; the database is empty, or holds the file
\* 'g' and no fingerprint
InitCrash ==
    /\ remote \in Remotes
    /\ entries \in {{}, {CrashStale}}
    /\ sync_meta = {}
    /\ status = "idle"
    /\ phase = "down"
    /\ incremental = TRUE
    /\ buffer = <<>>
    /\ stats = ZeroStats
    /\ tasks = <<>>
    /\ permits = CRAWL_CONCURRENCY
    /\ running = 0
    /\ pre_entries = {}
    /\ pre_meta = {}
    /\ visits = {}
    /\ meta_reads = {}
    /\ crashed = <<>>
    /\ passed = EmptyBag
    /\ changes = {}
    /\ InitBuild
    /\ InitSync
    /\ InitStore
    /\ InitAux

\* a run, at most one death of the process in it, and the run after the
\* restart, all against the same pages and with every fetch answered
NextCrash ==
    \/ StartRun
    \/ CrawlStart
    \/ \E t \in TaskIds : Acquire(t)
    \/ \E t \in TaskIds : FetchOk(t)
    \/ \E t \in TaskIds : Decide(t)
    \/ \E t \in TaskIds : BufferEntries(t)
    \/ \E t \in TaskIds : UpsertMeta(t)
    \/ \E t \in TaskIds : RemoveSelect(t)
    \/ \E t \in TaskIds : RemoveDelete(t)
    \/ \E t \in TaskIds : Recurse(t)
    \/ \E t \in TaskIds : GatherReturn(t)
    \/ FlushBuffer
    \/ CrawlEnd
    \/ ProcessDies
    \/ Restart
    \/ StartupRunSync

SpecCrash == InitCrash /\ [][NextCrash]_vars

\* C26: when the process died in a run and an incremental run after the
\* restart has ended against the same pages, every name listed by every
\* directory the interrupted run had visited has a stored entry.
C26_InterruptedDirectoriesRewritten ==
    (RunEnded /\ incremental /\ crashed # <<>>) =>
        \A v \in crashed.visits :
            \A i \in 1..Len(v.raw) :
                ~is_dot_name(v.raw[i].name) => Stored(JoinedPath(v.path, v.raw[i]))

(***************************************************************************)
(* A run over a tree with siblings, in which fetches fail and storage      *)
(* calls raise                                                             *)
(***************************************************************************)
pB == <<"b", "/">>
pG == <<"g", "/">>

\* three directories under the root, one of them with a subdirectory
FanRemote ==
    [d \in {pRoot, pA, pB, pG, pAB} |->
        IF d = pRoot THEN <<DirRow(<<"a">>), DirRow(<<"b">>), DirRow(<<"g">>)>>
        ELSE IF d = pA THEN <<DirRow(<<"b">>), FileRow(<<"g">>, <<"1">>)>>
        ELSE IF d = pG THEN <<>>
        ELSE <<FileRow(<<"f">>, <<"1">>)>>]

\* what 'a/' listed when an earlier run stored it
OldListing == <<DirRow(<<"b">>), FileRow(<<"f">>, <<"2">>)>>

\* an empty database, or one that holds 'a/' as an earlier run left it
InitFault ==
    /\ remote = FanRemote
    /\ \E old \in BOOLEAN :
          /\ entries = IF old THEN insert_entries_batch({}, entries_to_insert(OldListing, pA))
                       ELSE {}
          /\ sync_meta = IF old
                         THEN upsert_sync_meta({}, migrated_columns, pA, Len(OldListing),
                                               compute_content_hash(OldListing)).meta
                         ELSE {}
    /\ status = "idle"
    /\ InitCrawler
    /\ changes = {}
    /\ InitBuild
    /\ InitSync
    /\ InitStore
    /\ InitAux

\* the storage call the visit of t is about to make
storage_call(t) ==
    IF tasks[t].pc = "parsed" THEN (IF incremental THEN "get_sync_meta" ELSE "none")
    ELSE IF tasks[t].pc = "buffer"
         THEN (IF Len(buffer \o entries_to_insert(tasks[t].raw, tasks[t].path)) >= BATCH_SIZE
               THEN "insert_entries_batch" ELSE "none")
    ELSE IF tasks[t].pc = "meta" THEN "upsert_sync_meta"
    ELSE IF tasks[t].pc \in {"remove", "delete"} THEN "remove_missing_entries"
    ELSE "none"

\* a storage call of the visit raises (connect() rolls back): the coroutine
\* ends with the exception, which gather hands to the parent as a result or,
\* from the root, run_sync handles in its except branch
VisitRaises(t) ==
    /\ running = t
    /\ storage_call(t) # "none"
    /\ buffer' = IF storage_call(t) = "insert_entries_batch"
                 THEN flush_rest(buffer \o entries_to_insert(tasks[t].raw, tasks[t].path))
                 ELSE buffer
    /\ stats' = IF storage_call(t) = "get_sync_meta"
                THEN [stats EXCEPT !.dirs_crawled = @ + 1] ELSE stats
    /\ tasks' = [tasks EXCEPT ![t].pc = "raised"]
    /\ running' = 0
    /\ phase' = IF escapes_run(tasks[t]) THEN "failed" ELSE phase
    /\ IF escapes_run(tasks[t]) THEN SyncFailed ELSE SetStatus(status)
    /\ UNCHANGED <<remote, entries, sync_meta, incremental, permits, historyVars>>
    /\ OtherFrame

\* insert_entries_batch raises in _flush_buffer: crawl() raises, the buffer
\* is not emptied, run_sync records status 'error' or fails to
FlushRaises ==
    /\ phase = "traverse"
    /\ tasks[1].pc = "done"
    /\ buffer # <<>>
    /\ phase' = "failed"
    /\ SyncFailed
    /\ UNCHANGED <<remote, entries, sync_meta, incremental, buffer, stats, tasks, permits,
                   running, historyVars>>
    /\ OtherFrame

NextFault ==
    \/ StartRun
    \/ CrawlStart
    \/ \E t \in TaskIds : Acquire(t)
    \/ \E t \in TaskIds : FetchOk(t)
    \/ \E t \in TaskIds : FetchFail(t)
    \/ \E t \in TaskIds : Decide(t)
    \/ \E t \in TaskIds : BufferEntries(t)
    \/ \E t \in TaskIds : UpsertMeta(t)
    \/ \E t \in TaskIds : RemoveSelect(t)
    \/ \E t \in TaskIds : RemoveDelete(t)
    \/ \E t \in TaskIds : Recurse(t)
    \/ \E t \in TaskIds : GatherReturn(t)
    \/ \E t \in TaskIds : VisitRaises(t)
    \/ FlushBuffer
    \/ FlushRaises
    \/ CrawlEnd

SpecFault == InitFault /\ [][NextFault]_vars

\* the fetches between taking a permit and the end of reading the response
InFlight == {t \in TaskIds : tasks[t].pc = "fetching"}

\* the traversal of the run is over: crawl() has returned or raised
TraversalOver == phase \in {"flushed", "ended", "failed"}

\* C27: the fetches in flight never exceed CRAWL_CONCURRENCY, each holds
\* exactly one permit, a fetch that ended on any path (200, another status,
\* a timeout, an exception) holds none, and every permit is free when the
\* run is over.
C27_PermitsBoundFetches ==
    /\ Cardinality(InFlight) <= CRAWL_CONCURRENCY
    /\ permits = CRAWL_CONCURRENCY - Cardinality(InFlight)
    /\ TraversalOver => permits = CRAWL_CONCURRENCY

\* C27 witness: every permit is taken while another visit waits for one,
\* after two fetches of the run have been answered and given theirs back.
C27_Witness ==
    /\ permits = 0
    /\ \E t \in TaskIds : tasks[t].pc = "queued"
    /\ stats.dirs_crawled > 1

\* the fetch of task t failed
fetch_failed(t) ==
    /\ tasks[t].pc = "done"
    /\ \A v \in visits : v.path # tasks[t].path

\* some coroutine of the traversal can take a step without a fault: the
\* visit the event loop is in, a fetch in flight, a queued visit with a free
\* permit, a gather whose children have all finished, or crawl() itself
CanProceed ==
    \/ running # 0
    \/ \E t \in TaskIds : tasks[t].pc = "fetching" /\ tasks[t].path \in DOMAIN remote
    \/ \E t \in TaskIds : tasks[t].pc = "queued" /\ ~locked(permits)
    \/ \E t \in TaskIds : /\ tasks[t].pc = "waiting"
                          /\ \A c \in TaskIds : tasks[c].parent = t => finished(tasks[c])
    \/ tasks[1].pc = "done"

\* C28: every failed fetch is counted once in errors; the directory it was
\* for has the sync_meta row and the child rows it had before the run, none
\* of the records of its page is buffered or newly stored, and it has no
\* child visit; the traversal can always go on, every subdirectory found by
\* a visit gets its own visit, and a run that ends has status 'idle'.
C28_FailedFetchIsolated ==
    /\ stats.errors = Cardinality({t \in TaskIds : fetch_failed(t)})
    /\ \A t \in TaskIds : fetch_failed(t) =>
          LET d == tasks[t].path
              page == entries_to_insert(remote[d], d)
          IN /\ get_sync_meta(sync_meta, d) = get_sync_meta(pre_meta, d)
             /\ \A e \in pre_entries : e.parent_path = d /\ ContainingDir(e.path) = d
                                           => e \in entries
             /\ \A i \in 1..Len(page) :
                   /\ page[i] \in entries => page[i] \in pre_entries
                   /\ \A k \in 1..Len(buffer) : buffer[k] # page[i]
             /\ \A c \in TaskIds : tasks[c].parent # t
    /\ phase = "traverse" => CanProceed
    /\ \A t \in TaskIds : tasks[t].pc \in {"waiting", "done"} /\ ~fetch_failed(t) =>
          LET subs == subdirs(tasks[t].raw, tasks[t].path)
          IN \A i \in 1..Len(subs) :
                \E c \in TaskIds : tasks[c].parent = t /\ tasks[c].path = subs[i]
    /\ RunEnded => status = "idle" /\ \A t \in TaskIds : finished(tasks[t])

\* C28 witness: a run has ended with status 'idle' in which the fetch of
\* 'a/' failed while 'a/' was stored from an earlier run, and its siblings
\* 'b/' and 'g/' were visited.
C28_Witness ==
    /\ RunEnded /\ status = "idle" /\ stats.errors = 1
    /\ \E t \in TaskIds : fetch_failed(t) /\ tasks[t].path = pA
    /\ pre_meta # {}
    /\ \E v \in visits : v.path = pB
    /\ \E v \in visits : v.path = pG

\* the visit of task t ended with an exception
raised(t) == tasks[t].pc = "raised"

\* C29: when the visit of a directory at any depth has ended with an
\* exception, the run has stopped with status 'error'.
C29_AnyExceptionStopsRun ==
    (\E t \in TaskIds : raised(t)) => (phase = "failed" /\ status = "error")

\* C30: every failure of a visit, in the fetch or after it, is counted in
\* errors, and a run is only terminated by a failure outside the visits.
C30_VisitFailuresCounted ==
    /\ stats.errors = Cardinality({t \in TaskIds : fetch_failed(t) \/ raised(t)})
    /\ phase = "failed" => tasks[1].pc = "done"

\* C39: Database._normalize_date_value and normalize_myrient_date return the
\* same value for every input, None, empty and whitespace-only included.
C39_NormalizersAgree ==
    dt_pc = "done" => dt_out.stored = dt_out.first

(***************************************************************************)
(* Further properties of a run                                             *)
(***************************************************************************)
\* a run is under way or has ended
InRun == phase \in {"traverse", "flushed", "ended"}

\* C38: in a full run no visit reaches remove_missing_entries, and every
\* path that was stored when the run started is stored at every point of
\* the run and after it.
C38_FullRunRemovesNothing ==
    (InRun /\ ~incremental) =>
        /\ \A t \in TaskIds : tasks[t].pc \notin {"remove", "delete"}
        /\ \A e \in pre_entries : Stored(e.path)

\* C38 witness: a full run has ended that wrote, in non-skip mode, a
\* directory for which a row was stored whose name the page no longer lists.
C38_Witness ==
    /\ RunEnded /\ ~incremental
    /\ \E v \in visits : \E e \in pre_entries :
          /\ ~v.skip
          /\ e.parent_path = v.path /\ ContainingDir(e.path) = v.path
          /\ e.name \notin current_names(v.raw)
          /\ Stored(e.path)

Repeated(ch, n) == [i \in 1..n |-> ch]

\* the directories under the root: one more than the largest permit pool
WideDirCount == CRAWL_CONCURRENCY + 1

\* the files of the root page: two batches
WideFileCount == 2 * BATCH_SIZE

WideRootListing ==
    [i \in 1..WideDirCount |-> DirRow(Repeated("a", i))]
        \o [i \in 1..WideFileCount |-> FileRow(Repeated("f", i), <<"1">>)]

WideDirPaths == {Repeated("a", i) \o <<SLASH>> : i \in 1..WideDirCount}

\* root -> a/, aa/, ... and the files; a/ -> b/ -> one file; the others empty
WideRemote ==
    [d \in {pRoot, pAB} \cup WideDirPaths |->
        IF d = pRoot THEN WideRootListing
        ELSE IF d = pA THEN <<DirRow(<<"b">>)>>
        ELSE IF d = pAB THEN <<FileRow(<<"f">>, <<"1">>)>>
        ELSE <<>>]

\* an empty database, or one that holds 'a/b/' as its page lists it now
InitWide ==
    /\ remote = WideRemote
    /\ \E old \in BOOLEAN :
          /\ entries = IF old
                       THEN insert_entries_batch({}, entries_to_insert(WideRemote[pAB], pAB))
                       ELSE {}
          /\ sync_meta = IF old
                         THEN upsert_sync_meta({}, migrated_columns, pAB, Len(WideRemote[pAB]),
                                               compute_content_hash(WideRemote[pAB])).meta
                         ELSE {}
    /\ status = "idle"
    /\ InitCrawler
    /\ changes = {}
    /\ InitBuild
    /\ InitSync
    /\ InitStore
    /\ InitAux

\* run_sync with CRAWL_CONCURRENCY set to any value from 1 up: the crawler is
\* constructed with a pool of that many permits
StartWide ==
    /\ phase = "idle"
    /\ status # "crawling"
    /\ \E full \in BOOLEAN : incremental' = ~full
    /\ \E pool \in 1..CRAWL_CONCURRENCY : permits' = pool
    /\ phase' = "created"
    /\ buffer' = <<>>
    /\ stats' = ZeroStats
    /\ tasks' = <<>>
    /\ running' = 0
    /\ pre_entries' = entries
    /\ pre_meta' = sync_meta
    /\ visits' = {}
    /\ meta_reads' = {}
    /\ passed' = EmptyBag
    /\ UNCHANGED <<remote, dbVars, crashed>>
    /\ CrawlFrame

\* the steps of crawl() and of its coroutines
CrawlStep ==
    \/ CrawlStart
    \/ \E t \in TaskIds : Acquire(t)
    \/ \E t \in TaskIds : FetchOk(t)
    \/ \E t \in TaskIds : FetchFail(t)
    \/ \E t \in TaskIds : Decide(t)
    \/ \E t \in TaskIds : BufferEntries(t)
    \/ \E t \in TaskIds : UpsertMeta(t)
    \/ \E t \in TaskIds : RemoveSelect(t)
    \/ \E t \in TaskIds : RemoveDelete(t)
    \/ \E t \in TaskIds : Recurse(t)
    \/ \E t \in TaskIds : GatherReturn(t)
    \/ FlushBuffer
    \/ CrawlEnd

NextWide ==
    \/ StartWide
    \/ CrawlStart
    \/ \E t \in TaskIds : Acquire(t)
    \/ \E t \in TaskIds : FetchOk(t)
    \/ \E t \in TaskIds : FetchFail(t)
    \/ \E t \in TaskIds : Decide(t)
    \/ \E t \in TaskIds : BufferEntries(t)
    \/ \E t \in TaskIds : UpsertMeta(t)
    \/ \E t \in TaskIds : RemoveSelect(t)
    \/ \E t \in TaskIds : RemoveDelete(t)
    \/ \E t \in TaskIds : Recurse(t)
    \/ \E t \in TaskIds : GatherReturn(t)
    \/ FlushBuffer
    \/ CrawlEnd

SpecWide == InitWide /\ [][NextWide]_vars

\* ENABLED <<CrawlStep>>_vars written out: crawl() is at its start or after
\* its flush, or in the traversal the visit the event loop is in can go on,
\* a fetch is in flight, a queued visit finds a free permit, a gather has all
\* its children finished, or the root coroutine has returned
CanStep ==
    \/ phase \in {"created", "flushed"}
    \/ /\ phase = "traverse"
       /\ \/ running # 0
          \/ tasks[1].pc = "done"
          \/ \E t \in TaskIds : tasks[t].pc = "fetching"
          \/ \E t \in TaskIds : tasks[t].pc = "queued" /\ ~locked(permits)
          \/ \E t \in TaskIds :
                /\ tasks[t].pc = "waiting"
                /\ \A c \in TaskIds : tasks[c].parent = t => finished(tasks[c])

\* the event loop runs a coroutine that can take a step, and every fetch
\* completes (FetchOk or FetchFail): WF_vars(CrawlStep), with its ENABLED
\* written out as CanStep
SpecLive == SpecWide /\ (<>[]CanStep => []<><<CrawlStep>>_vars)

\* C35: after every check-and-flush step of a visit (every state of the
\* model, where the step under _buffer_lock is one action), the in-memory
\* buffer holds fewer than BATCH_SIZE records.
C35_BufferBelowBatchSize ==
    Len(buffer) < BATCH_SIZE

\* the visit of t has made its check-and-flush step
PastBuffer(t) ==
    /\ ~tasks[t].skip
    /\ tasks[t].pc \in {"meta", "remove", "delete", "recurse", "waiting", "done"}

\* the records built by the visits 1..n that have made that step, as a bag
RECURSIVE BuiltBy(_)
BuiltBy(n) ==
    IF n = 0 THEN EmptyBag
    ELSE BuiltBy(n - 1)
             (+) (IF PastBuffer(n)
                  THEN BagOfSeq(entries_to_insert(tasks[n].raw, tasks[n].path))
                  ELSE EmptyBag)

\* C31: in a run without storage failures, in every state of every
\* interleaving, the records insert_entries_batch has taken together with
\* the records still buffered are exactly the records built by the
\* non-skipped visits, each once; once crawl() has flushed, the buffer is
\* empty, so each of them has been passed exactly once.
C31_EveryRecordPassedOnce ==
    /\ LET built == BuiltBy(Len(tasks))
       IN /\ passed (+) BagOfSeq(buffer) = built
          /\ \A r \in DOMAIN built : built[r] = 1
    /\ phase \in {"flushed", "ended"} => buffer = <<>>

\* C31 witness: an incremental run has returned; one directory was skipped,
\* the others were fetched at the same time and filled more than two batches.
C31_Witness ==
    /\ phase = "ended" /\ incremental
    /\ stats.errors = 0
    /\ \E t \in TaskIds : tasks[t].skip
    /\ BagCardinality(passed) > 2 * BATCH_SIZE
    /\ buffer = <<>>

\* C36: when insert_entries_batch raises in the check-and-flush step of a
\* visit, each record of the batch it was given is, after the step, still
\* in the in-memory buffer or a row of entries.
C36_FailedBatchNotLost ==
    [][\A t \in TaskIds :
           (tasks[t].pc = "buffer" /\ tasks'[t].pc = "raised") =>
               LET batch == flush_batch(buffer \o entries_to_insert(tasks[t].raw,
                                                                     tasks[t].path))
               IN \A i \in 1..Len(batch) :
                      \/ \E j \in 1..Len(buffer') : buffer'[j] = batch[i]
                      \/ \E e \in entries' : e.path = batch[i].path]_vars

\* C37: every directory row of a listing whose normalized recursion path has
\* no segment that is '.' and does not begin with '.' is recursed into, a
\* directory below the root whose name starts with '.' included.
C37_OrdinarySubdirsRecursed ==
    \A t \in TaskIds :
        tasks[t].pc \in {"waiting", "done"} =>
            \A i \in 1..Len(tasks[t].raw) :
                LET sub_path == sub_path_of(tasks[t].path, tasks[t].raw[i].name)
                IN (/\ tasks[t].raw[i].is_directory
                    /\ ~is_dot_name(tasks[t].raw[i].name)
                    /\ ~has_dot_segment(sub_path)
                    /\ ~startswith(sub_path, DOT)) =>
                       \E c \in TaskIds : tasks[c].parent = t /\ tasks[c].path = sub_path

\* C32: no normalized directory path is fetched twice in a run: no two
\* coroutines that have sent their request are for the same path, whatever
\* rows the pages had.
C32_NoPathFetchedTwice ==
    \A t \in TaskIds : \A u \in TaskIds :
        (t # u /\ tasks[t].pc # "queued" /\ tasks[u].pc # "queued") =>
            tasks[t].path # tasks[u].path

\* C34: with every fetch completing and the event loop running, a run over a
\* tree wider and deeper than the permit pool, for every pool size from 1 up,
\* returns from crawl() with status 'idle'.
C34_CrawlReturnsIdle ==
    (phase = "created") ~> (phase = "ended" /\ status = "idle")

\* C34 witness: a run with a single permit has returned with status 'idle'
\* after fetching every directory of the tree.
C34_Witness ==
    /\ phase = "ended" /\ status = "idle"
    /\ permits = 1
    /\ stats.errors = 0
    /\ stats.dirs_crawled = WideDirCount + 2

====
